---- MODULE Spec2Model ----
(***************************************************************************)
(* Model of the odds state engine (calculations/evcalc.py), the fixture    *)
(* metadata cache (calculations/meta.py, calculations/state.py) and the    *)
(* event loop of one SSE worker (calculations/sse.py).                     *)
(*                                                                         *)
(* Numbers.  Decimal odds are integers in thousandths (2.5 is 2500), an    *)
(* American price is the integer itself, probabilities are integers in     *)
(* thousandths (0.4 is 400) and percentages rounded to 3 dp are integers   *)
(* in thousandths of a percent (3.6 % is 3600).  The quotes of the model   *)
(* carry prices whose reciprocal is exact in thousandths.                  *)
(*                                                                         *)
(* Strings.  str.lower, the `in` test and the three re.sub calls of        *)
(* clean_outcome_team_name are tables over the strings of the model; the   *)
(* code built on them is translated as written.  "" stands for a missing   *)
(* or empty string field and 0 for a missing numeric field (float(None)    *)
(* raises and the field is skipped, as a 0 is rejected by every test).     *)
(***************************************************************************)
EXTENDS Integers, Sequences, FiniteSets, TLC

VARIABLES
    market_state,          \* MarketKey -> ordered outcome records
    ev_cache,              \* <<fixture, sportsbook, market, outcome>> -> ev (3 dp)
    fixture_meta,          \* fixture id -> [home_team, away_team, start_date, league]
    fixture_meta_fetched,  \* fixture ids whose one-shot fetch returned data
    fetches,               \* history: per fixture id, how many times ensure_fixture_meta
                           \* went to fixtures/active for it, counted up to MaxFetches
    ev_items,              \* EV records returned by the last process_odds_batch
    arbitrages,            \* arbitrage records returned by the last process_odds_batch
    arb_calls,             \* the compute_arbitrage calls of the last batch: [key, best, result]
    fair_used,             \* per affected key of the last batch: [key, fair]
    grouped,               \* grouped raw-odds payload built for the last odds event
    last_items,            \* the items of the last odds event (after market filtering)
    admitted,              \* history: every admission of phase 1, in order
    meta_prev,             \* history: fixture_meta before the last step
    ev_prev,               \* history: the EV records of the odds event before the last
    last_event,            \* history: [type, arr] of the last step
    sink,                  \* the payloads handed to on_payload, in order: [batch, kind]
    nbatches,              \* number of odds events handled so far
    stop_event,            \* the fleet's cancellation token (threading.Event) is set
    pc,                    \* where the SSE worker is: "loop", "connecting", "sleeping",
                           \* "reading", "exited"
    timer,                 \* seconds left before the worker's blocking call times out
    backoff,               \* the worker's backoff, in seconds
    elapsed,               \* history: seconds since the token was set
    manager,               \* where subscribe_all_sports is: "idle", "waiting", "returned"
    lg_subchunks,          \* the worker's chunks of leagues
    sb_subchunks,          \* the worker's chunks of sportsbooks
    lg_idx,                \* the worker's index of the league chunk, modulo IdxModulus
    sb_idx,                \* the worker's index of the sportsbook chunk, modulo IdxModulus
    last_fault,            \* history: what ended the worker's last request or stream
    last_entry_id,         \* the worker's last_entry_id: <<>> for None, else <<id>>
    headers,               \* the headers of the worker's last request: <<>> when it had
                           \* none, else <<the value of Last-Event-ID>>
    carried,               \* history: the entry_id of the last odds or locked-odds event
                           \* that had one, <<>> before the first
    ingest_filters_enabled, \* settings.ingest_filters_enabled (INGEST_FILTERS)
    connections,           \* hub.connections: the accepted websockets
    prefs,                 \* hub.prefs: the preferences of each connection
    stream_thread,         \* per websocket: the thread of its fleet, 0 for None
    stream_stop_evt,       \* per websocket: the token of its fleet, 0 for None
    current_stream_filters, \* per websocket: the snapshot its fleet was launched with
    threads,               \* the threads started so far, by token
    fired,                 \* the tokens that are set
    steps,                 \* history: what the endpoint did for the last control frame
    acks,                  \* history: the control acks sent for the last control frame
    last_frame,            \* history: the last control frame and the state it met
    last_broadcast,        \* the last payload broadcast, the preferences it met and the
                           \* frames it sent to each websocket
    nframes,               \* number of control frames handled so far
    call,                  \* a function of the program under examination: its name and
                           \* its arguments, <<>> when there is none
    result,                \* what the call returned, <<>> before it returns
    lock,                  \* hub.lock: the coroutine that holds it, 0 when it is free
    tasks,                 \* the coroutines of the hub on the event loop, in the order of
                           \* their creation: where each is and its local variables
    outbox,                \* per websocket: the frames its send_text calls delivered
    closed,                \* the websockets whose endpoint has ended
    state_lock,            \* state_lock of calculations/state.py: the worker that holds it,
                           \* 0 when it is free
    batch_calls            \* per worker: where its call of process_odds_batch is, its items
                           \* and the item it is at

\* the state of the odds engine and of the event handlers of one worker
engineVars == <<market_state, ev_cache, fixture_meta, fixture_meta_fetched, fetches, ev_items,
                arbitrages, arb_calls, fair_used, grouped, last_items, admitted,
                meta_prev, ev_prev, last_event, sink, nbatches>>

\* the state of the subscription manager and of the connection loop of its worker
\* the chunks a worker asks for
\* what the worker resumes its stream with
resumeVars == <<last_entry_id, headers, carried>>

chunkVars == <<lg_subchunks, sb_subchunks, lg_idx, sb_idx, last_fault, resumeVars>>

fleetVars == <<stop_event, pc, timer, backoff, elapsed, manager, chunkVars>>

\* everything but the odds engine
\* the state of the hub and of the stream endpoint of each websocket
hubVars == <<ingest_filters_enabled, connections, prefs, stream_thread, stream_stop_evt,
             current_stream_filters, threads, fired, steps, acks, last_frame,
             last_broadcast, nframes>>

\* one call of a function of the program
callVars == <<call, result>>

\* the lock of the hub and the coroutines that take it
loopVars == <<lock, tasks, outbox, closed>>

\* what neither the engine, the fleet nor the endpoint owns
\* the workers that call process_odds_batch at the same time
workerVars == <<state_lock, batch_calls>>

otherVars == <<callVars, loopVars, workerVars>>

controlVars == <<fleetVars, hubVars, otherVars>>

vars == <<engineVars, controlVars>>

(***************************************************************************)
(* Bounds of the model.                                                    *)
(***************************************************************************)
MaxBatches == 2
MaxBatchLen == 2
MaxElapsed == 60
NumConnections == 2
MaxFrames == 3

(***************************************************************************)
(* Units.                                                                  *)
(***************************************************************************)
PriceOne == 1000
ProbOne == 1000
MinDecimal == 1010
FairLow == 600
FairHigh == 2000

\* requests.get(url, stream=True, timeout=(5, 45)) and the backoff of the worker, seconds
ConnectTimeout == 5
ReadTimeout == 45
BackoffStart == 2
MaxBackoff == 30

NoPair == <<"", "">>

(***************************************************************************)
(* String primitives.                                                      *)
(***************************************************************************)
LowerTable ==
    ( "Moneyline" :> "moneyline" @@ "1H" :> "1h" @@ "1H Moneyline" :> "1h moneyline"
   @@ "Team Total" :> "team total" @@ "Anytime Goalscorer" :> "anytime goalscorer"
   @@ "Total Games" :> "total games"
   @@ "Alcaraz" :> "alcaraz" @@ "Sinner" :> "sinner" @@ "Lakers" :> "lakers"
   @@ "Lakers Over 2.5" :> "lakers over 2.5" @@ "Lakers Under 2.5" :> "lakers under 2.5"
   @@ "Over 22.5" :> "over 22.5" @@ "Draw" :> "draw"
   @@ "Sinner Moneyline" :> "sinner moneyline" @@ "Sinner (ITA)" :> "sinner (ita)"
   @@ "N/A" :> "n/a"
   @@ "X" :> "x" @@ "Y" :> "y" @@ "Unknown" :> "unknown"
   @@ "ATP" :> "atp" @@ "WTA" :> "wta"
   @@ "Tennis" :> "tennis" @@ "Basketball" :> "basketball" @@ "True" :> "true"
   @@ "YES" :> "yes" @@ "EV" :> "ev" @@ "Bet-X" :> "bet-x" )

\* str.lower(); every string outside the table is lower-case already
Lower(s) == IF s \in DOMAIN LowerTable THEN LowerTable[s] ELSE s

StripTable ==
    ( " Tennis " :> "Tennis" @@ " tennis" :> "tennis" @@ " " :> "" @@ " YES " :> "YES"
   @@ " EV " :> "EV" )

\* str.strip(); every string outside the table has no blank at either end
Strip(s) == IF s \in DOMAIN StripTable THEN StripTable[s] ELSE s

\* Python's `needle in hay` (substring), for the needles the code tests
ContainsPairs ==
    { <<"1h", "1h moneyline">>,
      <<"moneyline", "moneyline">>, <<"moneyline", "1h moneyline">>,
      <<"scorer", "anytime goalscorer">>, <<"goalscorer", "anytime goalscorer">>,
      <<"anytime", "anytime goalscorer">>, <<"goal", "anytime goalscorer">>,
      <<"moneyline", "h1moneyline">>, <<"x", "betx">> }

Contains(needle, hay) == needle = hay \/ <<needle, hay>> \in ContainsPairs

\* re.sub(r"\s+(?:over|under)\s+[+\-]?\d+(?:\.\d+)?$", "", s, flags=re.I)
StripOverUnder(s) ==
    IF s \in {"Lakers Over 2.5", "Lakers Under 2.5"} THEN "Lakers" ELSE s

\* re.sub(r"\s+moneyline$", "", s, flags=re.I)
StripMoneylineSuffix(s) == IF s = "Sinner Moneyline" THEN "Sinner" ELSE s

\* re.sub(r"\s+\([^)]*\)$", "", s)
StripParen(s) == IF s = "Sinner (ITA)" THEN "Sinner" ELSE s

\* re.match(r"^(over|under)\b", low)
StartsOverUnder(low) == low \in {"over", "under", "over 22.5", "under 22.5"}

(***************************************************************************)
(* Quotes.  A quote of the model carries its fixture id under fixture_id,  *)
(* its market under market, at most one period/segment field (period), and*)
(* its participants under home_team_display / away_team_display.           *)
(***************************************************************************)
Sport == "tennis"

Quote(fid, mkt, per, nm, sb, dec, am, pr, live) ==
    [fixture_id |-> fid, market |-> mkt, period |-> per, name |-> nm,
     sportsbook |-> sb, decimal |-> dec, american |-> am, price |-> pr,
     is_live |-> live, home_team_display |-> "", away_team_display |-> "",
     league |-> "", start_time |-> 0]

normalize_market(m) == Lower(m)

is_nonexclusive_market(market_norm) ==
    LET s == Lower(market_norm) IN
    \/ /\ \/ Contains("scorer", s)
          \/ Contains("to score", s)
          \/ Contains("touchdown", s)
          \/ Contains("goalscorer", s)
          \/ Contains("home run", s)
       /\ ~(Contains("first", s) \/ Contains("1st", s))
    \/ /\ Contains("anytime", s)
       /\ \E t \in {"td", "touchdown", "goal", "home run", "scorer"} : Contains(t, s)

compose_market(it) ==
    LET base == it.market
        seg == it.period
    IN  IF seg # "" /\ ~Contains(Lower(seg), Lower(base))
        THEN seg \o " " \o base
        ELSE base

clean_outcome_team_name(name) ==
    IF name = "" THEN "" ELSE StripParen(StripMoneylineSuffix(StripOverUnder(name)))

is_generic_label(val) ==
    LET s == Lower(val) IN
    /\ s # ""
    /\ \/ s \in {"over", "under", "yes", "no", "odd", "even"}
       \/ s \in {"over 22.5", "under 22.5"}

american_to_decimal(a) ==
    IF a >= 100 THEN PriceOne + a * 10
    ELSE IF a <= -100 THEN PriceOne + (100 * PriceOne) \div (0 - a)
    ELSE 0

parse_decimal_odds(item) ==
    IF item.decimal >= MinDecimal THEN item.decimal
    ELSE IF american_to_decimal(item.american) # 0 THEN american_to_decimal(item.american)
    ELSE IF item.price >= MinDecimal THEN item.price
    ELSE 0

_norm_name(v) ==
    IF v = "" \/ Lower(v) \in {"none", "null", "n/a", "na"} THEN "" ELSE v

extract_home_away(item) ==
    LET home == IF is_generic_label(item.home_team_display) THEN "" ELSE item.home_team_display
        away == IF is_generic_label(item.away_team_display) THEN "" ELSE item.away_team_display
    IN  <<_norm_name(home), _norm_name(away)>>

extract_start_time(item) == item.start_time

extract_league_name(item) == item.league

(***************************************************************************)
(* Generic helpers.                                                        *)
(***************************************************************************)
Perms(S) == {f \in [1..Cardinality(S) -> S] : \A i, j \in 1..Cardinality(S) : f[i] = f[j] => i = j}

RECURSIVE SumSeq(_)
SumSeq(q) == IF q = <<>> THEN 0 ELSE Head(q) + SumSeq(Tail(q))

RECURSIVE MaxSeq(_)
MaxSeq(q) == IF q = <<>> THEN 0
             ELSE LET m == MaxSeq(Tail(q)) IN IF Head(q) > m THEN Head(q) ELSE m

\* round(n / d) for n >= 0, d > 0
RoundDiv(n, d) == (2 * n + d) \div (2 * d)

\* index of the first element of q with name nm, 0 when there is none
IndexOfName(q, nm) ==
    IF \E i \in 1..Len(q) : q[i].name = nm
    THEN CHOOSE i \in 1..Len(q) : q[i].name = nm /\ \A j \in 1..(i - 1) : q[j].name # nm
    ELSE 0

\* the first two distinct elements of a sequence of strings, compared after fold(_)
RECURSIVE FirstTwoBy(_, _, _)
FirstTwoBy(q, uniq, lowered) ==
    IF Len(uniq) >= 2 \/ q = <<>> THEN uniq
    ELSE IF (IF lowered THEN Lower(Head(q)) ELSE Head(q))
               \in {(IF lowered THEN Lower(uniq[i]) ELSE uniq[i]) : i \in 1..Len(uniq)}
         THEN FirstTwoBy(Tail(q), uniq, lowered)
         ELSE FirstTwoBy(Tail(q), Append(uniq, Head(q)), lowered)

(***************************************************************************)
(* process_odds_batch, first pass: update the book.                        *)
(***************************************************************************)
\* line 70 with != for >: any different price replaces the best
ImprovesIfDifferent(odds, best_price) == odds # best_price

\* line 70 with >= for >: a tie replaces the book
ImprovesOrTies(odds, best_price) == odds >= best_price

\* the test of line 70: the quote replaces best_price and book
Improves(odds, best_price) == odds > best_price

\* lines 49-63: the quote has a market, an outcome, a sportsbook, odds and a fixture
Admissible(it) ==
    /\ compose_market(it) # ""
    /\ it.name # ""
    /\ it.sportsbook # ""
    /\ parse_decimal_odds(it) # 0
    /\ it.fixture_id # ""

KeyOf(sport, it) ==
    <<sport, it.fixture_id, normalize_market(compose_market(it)), it.is_live>>

OutcomeMap(ms, key) == IF key \in DOMAIN ms THEN ms[key] ELSE <<>>

\* line 68: d.setdefault(outcome, {"best_price": 0.0, "book": None, "prices": []})
WithRecord(d, outcome) ==
    IF IndexOfName(d, outcome) = 0
    THEN Append(d, [name |-> outcome, best_price |-> 0, book |-> "", prices |-> <<>>])
    ELSE d

\* lines 69-72 on the record rec
RecordAfter(rec, odds, sb) ==
    IF Improves(odds, rec.best_price)
    THEN [name |-> rec.name, best_price |-> odds, book |-> sb, prices |-> Append(rec.prices, odds)]
    ELSE [rec EXCEPT !.prices = Append(@, odds)]

UpdateAt(d1, i, odds, sb) == [d1 EXCEPT ![i] = RecordAfter(@, odds, sb)]

\* lines 67-72 for one admissible quote
UpdateRecord(d, outcome, odds, sb) ==
    UpdateAt(WithRecord(d, outcome), IndexOfName(WithRecord(d, outcome), outcome), odds, sb)

PutKey(ms, key, d) == [k \in DOMAIN ms \cup {key} |-> IF k = key THEN d ELSE ms[k]]

AdmitQuote(ms, sport, it) ==
    IF ~Admissible(it) THEN ms
    ELSE PutKey(ms, KeyOf(sport, it),
                UpdateRecord(OutcomeMap(ms, KeyOf(sport, it)), it.name,
                             parse_decimal_odds(it), it.sportsbook))

RECURSIVE FirstPass(_, _, _)
FirstPass(ms, sport, items) ==
    IF items = <<>> THEN ms
    ELSE FirstPass(AdmitQuote(ms, sport, Head(items)), sport, Tail(items))

AffectedKeys(sport, items) ==
    {KeyOf(sport, items[i]) : i \in {j \in 1..Len(items) : Admissible(items[j])}}

\* history: the admissions of a batch, in order
RECURSIVE Admissions(_, _)
Admissions(sport, items) ==
    IF items = <<>> THEN <<>>
    ELSE (IF Admissible(Head(items))
          THEN <<[key |-> KeyOf(sport, Head(items)), outcome |-> Head(items).name,
                  price |-> parse_decimal_odds(Head(items)), sb |-> Head(items).sportsbook]>>
          ELSE <<>>) \o Admissions(sport, Tail(items))

(***************************************************************************)
(* Second pass, per affected key: best prices, fair probabilities,         *)
(* arbitrage.                                                              *)
(***************************************************************************)
\* lines 81-85 without the filter of line 84
BestOfUnfiltered(outcome_map) ==
    [i \in 1..Len(outcome_map) |-> [name |-> outcome_map[i].name,
                                    price |-> outcome_map[i].best_price,
                                    book |-> outcome_map[i].book]]

AsBest(kept) ==
    [i \in 1..Len(kept) |-> [name |-> kept[i].name, price |-> kept[i].best_price,
                             book |-> kept[i].book]]

\* lines 81-85: [name, price, book] of the outcomes with best_price >= 1.01, in book order
BestOf(outcome_map) == AsBest(SelectSeq(outcome_map, LAMBDA r : r.best_price >= MinDecimal))

\* 1.0 / price
ImpliedProb(price) == (ProbOne * PriceOne) \div price

AsBase(kept) ==
    [i \in 1..Len(kept) |-> [name |-> kept[i].name, bp |-> ImpliedProb(kept[i].price)]]

\* lines 86-92
BaseProbs(best) == AsBase(SelectSeq(best, LAMBDA b : b.price # 0 /\ b.price >= MinDecimal))

\* lines 129-134
TeamOf(out) ==
    LET team == Lower(clean_outcome_team_name(out))
    IN  IF team = "" THEN Lower(out) ELSE team

\* line 140 without its lower bound
InFairRangeNoFloor(total) == total <= FairHigh

\* lines 140, 147: 0.6 <= total <= 2.0
InFairRange(total) == FairLow <= total /\ total <= FairHigh

BpOf(base, o) == base[IndexOfName(base, o)].bp

GroupTotal(base, team) ==
    SumSeq([i \in 1..Len(base) |-> IF TeamOf(base[i].name) = team THEN base[i].bp ELSE 0])

GroupSize(base, team) == Cardinality({i \in 1..Len(base) : TeamOf(base[i].name) = team})

\* lines 137-140: the team group has at least 2 outcomes and its total is in [0.6, 2.0]
GroupQualifies(base, team) ==
    GroupSize(base, team) >= 2 /\ InFairRange(GroupTotal(base, team))

\* lines 136-144: the outcomes of the team groups that qualify, each with its group total
TeamGroupFair(base) ==
    [o \in {base[i].name : i \in {j \in 1..Len(base) : GroupQualifies(base, TeamOf(base[j].name))}}
        |-> [bp |-> BpOf(base, o), total |-> GroupTotal(base, TeamOf(o))]]

BaseTotal(base) == SumSeq([i \in 1..Len(base) |-> base[i].bp])

\* lines 145-148
WholeMarketFair(base, market_norm) ==
    IF InFairRange(BaseTotal(base)) /\ ~is_nonexclusive_market(market_norm)
    THEN [o \in {base[i].name : i \in 1..Len(base)} |->
             [bp |-> BpOf(base, o), total |-> BaseTotal(base)]]
    ELSE << >>

\* line 145: whole-market normalisation only when no team group gave a fair probability
PickFair(tg, base, market_norm) ==
    IF DOMAIN tg = {} /\ Len(base) >= 2 THEN WholeMarketFair(base, market_norm) ELSE tg

\* lines 125-148: fair_probs, as outcome -> [bp, total] (fair_prob = bp / total)
FairProbs(base, market_norm) ==
    IF base = <<>> THEN << >> ELSE PickFair(TeamGroupFair(base), base, market_norm)

NoArb == [ok |-> FALSE, total |-> 0, pct |-> 0]

ArbResult(total_implied) ==
    IF 0 < total_implied /\ total_implied < ProbOne
    THEN [ok |-> TRUE, total |-> total_implied, pct |-> (ProbOne - total_implied) * 100]
    ELSE NoArb

\* lines 17-23: the sum of 1/price over the entries with a price >= 1.01
CountedImplied(best) ==
    SumSeq([i \in 1..Len(best) |->
               IF best[i].price # 0 /\ best[i].price >= MinDecimal
               THEN ImpliedProb(best[i].price) ELSE 0])

\* compute_arbitrage without the length test of line 15
compute_arbitrage_any_length(best) == ArbResult(CountedImplied(best))

\* compute_arbitrage: [ok, total_implied, arb_percent]
compute_arbitrage(best) ==
    IF Len(best) < 2 THEN NoArb ELSE ArbResult(CountedImplied(best))

\* sorted(best.items(), key=price, reverse=True): stable, descending
RECURSIVE InsertDesc(_, _)
InsertDesc(sorted, b) ==
    IF sorted = <<>> THEN <<b>>
    ELSE IF Head(sorted).price >= b.price
         THEN <<Head(sorted)>> \o InsertDesc(Tail(sorted), b)
         ELSE <<b>> \o sorted

RECURSIVE SortedDesc(_)
SortedDesc(best) ==
    IF best = <<>> THEN <<>>
    ELSE InsertDesc(SortedDesc(SubSeq(best, 1, Len(best) - 1)), best[Len(best)])

ArbRecord(key, arb, ordered) ==
    [sport |-> key[1], fixture_id |-> key[2], market_name |-> key[3], is_live |-> key[4],
     outcomes |-> [i \in 1..Len(ordered) |->
         [name |-> ordered[i].name, sports_book_name |-> ordered[i].book,
          price |-> ordered[i].price]],
     total_implied_percent |-> arb.total * 100,
     arbitrage_percent |-> arb.pct]

\* lines 151-170: the arbitrage records of one key (none or one)
ArbRecords(key, best, arb) ==
    IF arb.ok /\ Len(best) >= 2 THEN <<ArbRecord(key, arb, SortedDesc(best))>> ELSE <<>>

(***************************************************************************)
(* FixtureMeta.                                                            *)
(***************************************************************************)
EmptyMeta == [home_team |-> "", away_team |-> "", start_date |-> 0, league |-> ""]

MetaOf(fm, fid) == IF fid \in DOMAIN fm THEN fm[fid] ELSE EmptyMeta

\* `not fixture_meta.get(fid)`: no entry, or an entry with no field
MetaIsEmpty(meta) == meta = EmptyMeta

\* the write without its guard: meta["home_team"] = hm
PutAlways(old, new) == new

\* `if hm: meta["home_team"] = hm` and its two siblings for away_team and league
PutIfSet(old, new) == IF new # "" THEN new ELSE old

\* `if st: meta["start_date"] = st`
PutIfNonZero(old, new) == IF new # 0 THEN new ELSE old

PutMeta(fm, fid, new) == [f \in DOMAIN fm \cup {fid} |-> IF f = fid THEN new ELSE fm[f]]

\* the four guarded writes on the entry old
Refreshed(old, ha, st, lg) ==
    [home_team |-> PutIfSet(old.home_team, ha[1]),
     away_team |-> PutIfSet(old.away_team, ha[2]),
     start_date |-> PutIfNonZero(old.start_date, st),
     league |-> PutIfSet(old.league, lg)]

\* meta = fixture_meta.setdefault(str(fid), {}) followed by the four guarded writes
RefreshOne(fm, it) ==
    IF it.fixture_id = "" THEN fm
    ELSE PutMeta(fm, it.fixture_id,
                 Refreshed(MetaOf(fm, it.fixture_id), extract_home_away(it),
                           extract_start_time(it), extract_league_name(it)))

RECURSIVE RefreshMeta(_, _)
RefreshMeta(fm, arr) ==
    IF arr = <<>> THEN fm ELSE RefreshMeta(RefreshOne(fm, Head(arr)), Tail(arr))

\* ensure_fixture_meta; answer is the data array fixtures/active returns for the fixture
ensure_fixture_meta(fm, fetched, fixture_id, answer) ==
    IF fixture_id = "" \/ fixture_id \in fetched \/ answer = <<>>
    THEN [fm |-> fm, fetched |-> fetched]
    ELSE [fm |-> RefreshMeta(fm, answer), fetched |-> fetched \cup {fixture_id}]

SetDefaultTeams(old, ih, ia) ==
    [old EXCEPT !.home_team = IF @ = "" THEN ih ELSE @,
                !.away_team = IF @ = "" THEN ia ELSE @]

\* fm.setdefault("home_team", ih); fm.setdefault("away_team", ia)
PersistInferred(fm, fid, ih, ia) == PutMeta(fm, fid, SetDefaultTeams(MetaOf(fm, fid), ih, ia))

(***************************************************************************)
(* Second pass: EV records.                                                *)
(***************************************************************************)
Clamp(lo, v, hi) == IF v < lo THEN lo ELSE IF v > hi THEN hi ELSE v

\* compute_ev_pct, rounded to 3 dp; fair is [bp, total], fair_prob = bp / total
compute_ev_pct(fair, offered_odds) ==
    RoundDiv(Clamp(0, fair.bp, fair.total)
                 * (IF offered_odds < PriceOne THEN PriceOne ELSE offered_odds) * 100,
             fair.total) - 100 * ProbOne

PairOf(uniq) == IF Len(uniq) >= 2 THEN <<uniq[1], uniq[2]>> ELSE NoPair

\* lines 99-108: the cleaned labels that may name a team
TeamCandidates(names) ==
    SelectSeq(names, LAMBDA o : o # "" /\ Lower(o) \notin {"draw", "tie", "over", "under"})

\* infer_teams_from_outcomes
infer_teams_from_outcomes(outcome_map) ==
    PairOf(FirstTwoBy(TeamCandidates([i \in 1..Len(outcome_map) |->
                                         clean_outcome_team_name(outcome_map[i].name)]),
                      <<>>, TRUE))

\* line 195: the market is a head-to-head one
IsH2HMarket(mk) ==
    \E k \in {"moneyline", "match winner", "matchwinner", "ml", "winner"} : Contains(k, mk)

RECURSIVE Reverse(_)
Reverse(q) == IF q = <<>> THEN <<>> ELSE Append(Reverse(Tail(q)), Head(q))

\* lines 178-193: the quotes of the batch that name a participant of this fixture and market
ParticipantQuotes(items, fixture_id, market_norm) ==
    SelectSeq(items, LAMBDA c :
        /\ c.fixture_id = fixture_id
        /\ normalize_market(c.market) = market_norm
        /\ c.name # ""
        /\ Lower(c.name) \notin {"over", "under", "odd", "even", "yes", "no"}
        /\ ~StartsOverUnder(Lower(c.name)))

NamesOf(q) == [i \in 1..Len(q) |-> q[i].name]

\* lines 194-200: head-to-head names are inserted at the front, the others appended
SbList(mine) ==
    Reverse(NamesOf(SelectSeq(mine, LAMBDA c : IsH2HMarket(Lower(c.market)))))
        \o NamesOf(SelectSeq(mine, LAMBDA c : ~IsH2HMarket(Lower(c.market))))

\* lines 194-214: per sportsbook, the first two distinct names, head-to-head markets first
ParticipantsBySb(pq, sb) ==
    PairOf(FirstTwoBy(SbList(SelectSeq(pq, LAMBDA c : Lower(c.sportsbook) = sb)), <<>>, FALSE))

\* lines 215-226
AggPair(pq) == PairOf(FirstTwoBy(NamesOf(pq), <<>>, FALSE))

\* lines 256-261: the pair of the quote's sportsbook, else the pair of the whole batch
BackfillPair(bySb, agg, sb) == IF sb # "" /\ bySb # NoPair THEN bySb ELSE agg

\* line 232: the quote is taken to belong to the key when its raw market matches
EvMarketMatches(it, market_norm) == normalize_market(it.market) = market_norm

Or(a, b) == IF a # "" THEN a ELSE b

\* lines 281-299
EvRecord(key, it, meta, home, away, od, evv) ==
    [sport |-> key[1], fixture_id |-> key[2], market |-> key[3],
     market_base |-> it.market,
     league |-> Or(meta.league, extract_league_name(it)),
     home_team |-> Or(meta.home_team, home),
     away_team |-> Or(meta.away_team, away),
     start_date |-> IF meta.start_date # 0 THEN meta.start_date ELSE extract_start_time(it),
     name |-> it.name, price |-> od, sportsbook |-> it.sportsbook,
     is_live |-> key[4], ev_value |-> evv]

\* lines 301-308
CachePut(cache, ck, evv) ==
    IF ck[1] # "" /\ ck[2] # "" /\ ck[3] # "" /\ ck[4] # ""
    THEN [c \in DOMAIN cache \cup {ck} |-> IF c = ck THEN evv ELSE cache[c]]
    ELSE cache

\* lines 280-308: append the record and update the cache
EvEmit(acc, key, it, fm2, meta2, home2, away2, evv) ==
    [fm |-> fm2, fetched |-> acc.fetched,
     evs |-> Append(acc.evs, EvRecord(key, it, meta2, home2, away2, parse_decimal_odds(it), evv)),
     cache |-> CachePut(acc.cache,
                        <<key[2], Lower(it.sportsbook), Lower(key[3]), Lower(it.name)>>, evv)]

\* lines 269-279, given the inferred pair inf (NoPair when the inference is not run or
\* fails); meta is the dict read at line 251, which is the cached one unless that was empty
EvInfer(acc, key, it, meta, home1, away1, inf, evv) ==
    EvEmit(acc, key, it,
           IF inf # NoPair THEN PersistInferred(acc.fm, key[2], inf[1], inf[2]) ELSE acc.fm,
           IF inf # NoPair /\ ~MetaIsEmpty(meta) THEN SetDefaultTeams(meta, inf[1], inf[2])
           ELSE meta,
           IF inf[1] # "" /\ Or(meta.home_team, home1) = "" THEN inf[1] ELSE home1,
           IF inf[2] # "" /\ Or(meta.away_team, away1) = "" THEN inf[2] ELSE away1,
           evv)

\* lines 254-269, given the backfill pair p
EvBackfill(acc, key, it, meta, ha, p, outcome_map, evv, useP) ==
    EvInfer(acc, key, it, meta,
            IF useP THEN p[1] ELSE ha[1],
            IF useP THEN p[2] ELSE ha[2],
            IF \/ Or(meta.home_team, IF useP THEN p[1] ELSE ha[1]) = ""
               \/ Or(meta.away_team, IF useP THEN p[2] ELSE ha[2]) = ""
            THEN infer_teams_from_outcomes(outcome_map)
            ELSE NoPair,
            evv)

\* lines 243-262, after the one-shot fetch
EvQuote(acc, key, it, fair, outcome_map, pq, meta, ha) ==
    IF it.name \notin DOMAIN fair \/ parse_decimal_odds(it) = 0 THEN acc
    ELSE EvBackfill(acc, key, it, meta, ha,
                    BackfillPair(ParticipantsBySb(pq, Lower(it.sportsbook)), AggPair(pq),
                                 Lower(it.sportsbook)),
                    outcome_map,
                    compute_ev_pct(fair[it.name], parse_decimal_odds(it)),
                    /\ BackfillPair(ParticipantsBySb(pq, Lower(it.sportsbook)), AggPair(pq),
                                    Lower(it.sportsbook)) # NoPair
                    /\ Or(meta.home_team, ha[1]) = ""
                    /\ Or(meta.away_team, ha[2]) = "")

EvAfterEnsure(acc, key, it, fair, outcome_map, pq) ==
    EvQuote(acc, key, it, fair, outcome_map, pq, MetaOf(acc.fm, key[2]), extract_home_away(it))

\* lines 239-242: the one-shot fetch when the fixture has no metadata
EnsuredAcc(acc, ens) == [acc EXCEPT !.fm = ens.fm, !.fetched = ens.fetched]

\* lines 231-310 for one quote; acc is [fm, fetched, evs, cache]
EvStep(acc, it, key, fair, outcome_map, pq, answer) ==
    IF ~EvMarketMatches(it, key[3]) \/ it.fixture_id # key[2] THEN acc
    ELSE EvAfterEnsure(IF MetaIsEmpty(MetaOf(acc.fm, key[2]))
                       THEN EnsuredAcc(acc, ensure_fixture_meta(acc.fm, acc.fetched, key[2], answer))
                       ELSE acc,
                       key, it, fair, outcome_map, pq)

RECURSIVE EvLoop(_, _, _, _, _, _, _)
EvLoop(acc, rest, key, fair, outcome_map, pq, answer) ==
    IF rest = <<>> THEN acc
    ELSE EvLoop(EvStep(acc, Head(rest), key, fair, outcome_map, pq, answer),
                Tail(rest), key, fair, outcome_map, pq, answer)

\* lines 172-312: the EV records of one key, when it has fair probabilities
EvOfKey(acc, key, fair, outcome_map, items, answer) ==
    IF DOMAIN fair = {} THEN acc
    ELSE EvLoop(acc, items, key, fair, outcome_map,
                ParticipantQuotes(items, key[2], key[3]), answer)

DerivedAcc(acc, evacc, key, best, fair, arb) ==
    [fm |-> evacc.fm, fetched |-> evacc.fetched, evs |-> evacc.evs, cache |-> evacc.cache,
     arbs |-> acc.arbs \o ArbRecords(key, best, arb),
     calls |-> Append(acc.calls, [key |-> key, best |-> best, result |-> arb]),
     fairs |-> Append(acc.fairs, [key |-> key, fair |-> fair])]

DeriveFair(acc, key, outcome_map, best, fair, items, answer) ==
    DerivedAcc(acc,
               EvOfKey([fm |-> acc.fm, fetched |-> acc.fetched, evs |-> acc.evs,
                        cache |-> acc.cache], key, fair, outcome_map, items, answer),
               key, best, fair, compute_arbitrage(best))

DeriveBest(acc, key, outcome_map, best, items, answer) ==
    DeriveFair(acc, key, outcome_map, best, FairProbs(BaseProbs(best), key[3]), items, answer)

\* lines 78-312 for one affected key; acc is [fm, fetched, evs, cache, arbs, calls, fairs]
DeriveKey(acc, outcome_map, key, items, answer) ==
    DeriveBest(acc, key, outcome_map, BestOf(outcome_map), items, answer)

RECURSIVE DeriveAll(_, _, _, _, _)
DeriveAll(acc, ms, order, items, answers) ==
    IF order = <<>> THEN acc
    ELSE DeriveAll(DeriveKey(acc, OutcomeMap(ms, Head(order)), Head(order), items,
                             answers[Head(order)[2]]),
                   ms, Tail(order), items, answers)

BatchResult(ms1, d) ==
    [ms |-> ms1, fm |-> d.fm, fetched |-> d.fetched, cache |-> d.cache,
     evs |-> d.evs, arbs |-> d.arbs, calls |-> d.calls, fairs |-> d.fairs]

SecondPass(ms1, fm, fetched, cache, items, order, answers) ==
    BatchResult(ms1, DeriveAll([fm |-> fm, fetched |-> fetched, evs |-> <<>>, cache |-> cache,
                                arbs |-> <<>>, calls |-> <<>>, fairs |-> <<>>],
                               ms1, order, items, answers))

\* process_odds_batch(sport, items); order is the iteration order of the set
\* affected_keys, answers the data fixtures/active returns per fixture id
process_odds_batch(ms, fm, fetched, cache, sport, items, order, answers) ==
    SecondPass(FirstPass(ms, sport, items), fm, fetched, cache, items, order, answers)

\* meta.py line 13 is passed: ensure_fixture_meta goes to fixtures/active for the fixture
\* of key (evcalc.py lines 239-242 call it when the fixture has no metadata)
GoesToFetch(acc, it, key) ==
    /\ EvMarketMatches(it, key[3])
    /\ it.fixture_id = key[2]
    /\ MetaIsEmpty(MetaOf(acc.fm, key[2]))
    /\ key[2] # ""
    /\ key[2] \notin acc.fetched

\* the fixture ids ensure_fixture_meta goes to fixtures/active for, in the loop of
\* lines 230-310 over the items of one key
RECURSIVE FetchesLoop(_, _, _, _, _, _, _)
FetchesLoop(acc, rest, key, fair, outcome_map, pq, answer) ==
    IF rest = <<>> THEN <<>>
    ELSE (IF GoesToFetch(acc, Head(rest), key) THEN <<key[2]>> ELSE <<>>)
         \o FetchesLoop(EvStep(acc, Head(rest), key, fair, outcome_map, pq, answer),
                        Tail(rest), key, fair, outcome_map, pq, answer)

FetchesOfFair(acc, key, fair, outcome_map, items, answer) ==
    IF DOMAIN fair = {} THEN <<>>
    ELSE FetchesLoop([fm |-> acc.fm, fetched |-> acc.fetched, evs |-> acc.evs,
                      cache |-> acc.cache], items, key, fair, outcome_map,
                     ParticipantQuotes(items, key[2], key[3]), answer)

FetchesOfKey(acc, outcome_map, key, items, answer) ==
    FetchesOfFair(acc, key, FairProbs(BaseProbs(BestOf(outcome_map)), key[3]), outcome_map,
                  items, answer)

RECURSIVE FetchesAll(_, _, _, _, _)
FetchesAll(acc, ms, order, items, answers) ==
    IF order = <<>> THEN <<>>
    ELSE FetchesOfKey(acc, OutcomeMap(ms, Head(order)), Head(order), items,
                      answers[Head(order)[2]])
         \o FetchesAll(DeriveKey(acc, OutcomeMap(ms, Head(order)), Head(order), items,
                                 answers[Head(order)[2]]),
                       ms, Tail(order), items, answers)

\* the fixture ids the second pass goes to fixtures/active for, in order
SecondPassFetches(ms1, fm, fetched, cache, items, order, answers) ==
    FetchesAll([fm |-> fm, fetched |-> fetched, evs |-> <<>>, cache |-> cache,
                arbs |-> <<>>, calls |-> <<>>, fairs |-> <<>>],
               ms1, order, items, answers)

batch_fetches(ms, fm, fetched, cache, sport, items, order, answers) ==
    SecondPassFetches(FirstPass(ms, sport, items), fm, fetched, cache, items, order, answers)

MaxFetches == 2

\* the counts with the fixture ids of log added, each count kept up to MaxFetches
RECURSIVE Counted(_, _)
Counted(counts, log) ==
    IF log = <<>> THEN counts
    ELSE Counted([f \in DOMAIN counts \cup {Head(log)} |->
                     IF f = Head(log)
                     THEN (IF f \in DOMAIN counts
                           THEN (IF counts[f] < MaxFetches THEN counts[f] + 1 ELSE counts[f])
                           ELSE 1)
                     ELSE counts[f]],
                 Tail(log))

(***************************************************************************)
(* sse_worker: the grouped raw-odds payload of one odds event.             *)
(***************************************************************************)
NoEv == <<>>

EvKey(e) == <<e.fixture_id, Lower(e.sportsbook), Lower(e.market), Lower(e.name)>>

\* the last record of evs with the key k
LastWithKey(evs, k) ==
    CHOOSE i \in 1..Len(evs) : EvKey(evs[i]) = k /\ \A j \in (i + 1)..Len(evs) : EvKey(evs[j]) # k

\* lines 338-351: the EV of the records of this batch, by (fixture, book, market, name)
EvMap(evs) ==
    [k \in {EvKey(evs[i]) : i \in {j \in 1..Len(evs) : \A c \in 1..4 : EvKey(evs[j])[c] # ""}}
        |-> evs[LastWithKey(evs, k)].ev_value]

\* line 393: ev_map.get(key)
EvLookup(ev_map, k) == IF k \in DOMAIN ev_map THEN <<ev_map[k]>> ELSE NoEv

\* lines 304-335: per fixture of the batch, two names inferred from the outcome labels
InferredByFx(arr, fxid) ==
    PairOf(FirstTwoBy(TeamCandidates([i \in 1..Len(arr) |->
                          IF arr[i].fixture_id # "" /\ arr[i].fixture_id = fxid
                          THEN clean_outcome_team_name(arr[i].name) ELSE ""]),
                      <<>>, TRUE))

BookOf(it) == IF it.sportsbook # "" THEN it.sportsbook ELSE "Unknown"

\* lines 388-398
OddsObj(it, ev_map) ==
    [market |-> Lower(it.market), sports_book_name |-> Lower(BookOf(it)),
     ev_value |-> EvLookup(ev_map, <<it.fixture_id, Lower(BookOf(it)), Lower(it.market),
                                      Lower(it.name)>>),
     name |-> it.name, price |-> it.price, is_live |-> it.is_live]

\* lines 367-369
WithInferred(it, home1, away1, inf, ev_map) ==
    [book |-> BookOf(it), id |-> it.fixture_id,
     home_team |-> IF (home1 = "" \/ away1 = "") /\ inf # NoPair THEN Or(home1, inf[1]) ELSE home1,
     away_team |-> IF (home1 = "" \/ away1 = "") /\ inf # NoPair THEN Or(away1, inf[2]) ELSE away1,
     start_date |-> extract_start_time(it), league |-> extract_league_name(it),
     odds |-> OddsObj(it, ev_map)]

\* lines 361-366
WithMeta(it, ha, meta_fx, inf, ev_map) ==
    WithInferred(it,
                 IF ha[1] = "" \/ ha[2] = "" THEN Or(ha[1], meta_fx.home_team) ELSE ha[1],
                 IF ha[1] = "" \/ ha[2] = "" THEN Or(ha[2], meta_fx.away_team) ELSE ha[2],
                 inf, ev_map)

\* lines 353-398: the game fields and the odds entry of one item
RawEntry(it, arr, fm, ev_map) ==
    WithMeta(it, extract_home_away(it), MetaOf(fm, it.fixture_id),
             InferredByFx(arr, it.fixture_id), ev_map)

MergeGame(g, e) ==
    [id |-> g.id,
     home_team |-> Or(g.home_team, e.home_team),
     away_team |-> Or(g.away_team, e.away_team),
     start_date |-> IF g.start_date # 0 THEN g.start_date ELSE e.start_date,
     league |-> Or(g.league, e.league),
     odds |-> Append(g.odds, e.odds)]

NewGame(e) ==
    [id |-> e.id, home_team |-> e.home_team, away_team |-> e.away_team,
     start_date |-> e.start_date, league |-> e.league, odds |-> <<e.odds>>]

FirstGame(games, id) ==
    IF \E i \in 1..Len(games) : games[i].id = id
    THEN CHOOSE i \in 1..Len(games) : games[i].id = id /\ \A j \in 1..(i - 1) : games[j].id # id
    ELSE 0

\* lines 399-424: add the entry to the game of its book and fixture, or open a new game
AddToGames(games, e, i) ==
    IF i = 0 THEN Append(games, NewGame(e)) ELSE [games EXCEPT ![i] = MergeGame(@, e)]

GamesOf(g, book) == IF book \in DOMAIN g THEN g[book] ELSE <<>>

AddEntry(g, e) ==
    [b \in DOMAIN g \cup {e.book} |->
        IF b = e.book
        THEN AddToGames(GamesOf(g, e.book), e, FirstGame(GamesOf(g, e.book), e.id))
        ELSE g[b]]

RECURSIVE GroupRaw(_, _, _, _, _)
GroupRaw(g, rest, arr, fm, ev_map) ==
    IF rest = <<>> THEN g
    ELSE GroupRaw(AddEntry(g, RawEntry(Head(rest), arr, fm, ev_map)), Tail(rest), arr, fm, ev_map)

\* lines 299-424: book -> games, built after process_odds_batch has returned
GroupedPayload(arr, fm, evs) == GroupRaw(<< >>, arr, arr, fm, EvMap(evs))

(***************************************************************************)
(* The worker's steps.                                                     *)
(***************************************************************************)
\* the websockets
WS == 1..NumConnections

\* Python's None where the value is a thread or a token
None == 0

Axes == {"sport", "market", "sportsbook", "league"}

\* Hub.connect, lines 39-44: the four filter sets of a new connection
EmptyFilters == [sport |-> {}, market |-> {}, sportsbook |-> {}, league |-> {}]

\* the leagues and sportsbooks of the worker: with chunk sizes 2 and 1, chunk_list gives
\* one chunk of leagues and a chunk for each sportsbook (sse.py lines 90-92)
WorkerLeagues == <<"atp", "wta">>

WorkerBooks == <<"X", "Y">>

NumWorkers == 2

\* the threads that run sse_worker at the same time
Workers == 1..NumWorkers

\* a worker that is not in process_odds_batch
NoCall == [pc |-> "idle", items |-> <<>>, i |-> 1]

\* chunk_list (opticOdds/utils.py lines 17-31): chunks of `size` items, the last one may
\* be smaller; one chunk with everything when size <= 0
chunk_list(items, size) ==
    IF size <= 0
    THEN IF items # <<>> THEN <<items>> ELSE <<>>
    ELSE [k \in 1..((Len(items) + size - 1) \div size) |->
             SubSeq(items, (k - 1) * size + 1,
                    IF k * size < Len(items) THEN k * size ELSE Len(items))]

\* sse_worker, lines 89-99: the chunks of the worker's partition and the two indices
WorkerStart(leagues, lg_size, sportsbooks, sb_size) ==
    /\ lg_subchunks = chunk_list(leagues, lg_size)
    /\ sb_subchunks = chunk_list(sportsbooks, sb_size)
    /\ lg_idx = 0
    /\ sb_idx = 0

\* the state after construction, but for the partition of the worker
InitBase ==
    /\ market_state = << >>
    /\ ev_cache = << >>
    /\ fixture_meta = << >>
    /\ fixture_meta_fetched = {}
    /\ fetches = << >>
    /\ ev_items = <<>>
    /\ arbitrages = <<>>
    /\ arb_calls = <<>>
    /\ fair_used = <<>>
    /\ grouped = << >>
    /\ last_items = <<>>
    /\ admitted = <<>>
    /\ meta_prev = << >>
    /\ ev_prev = <<>>
    /\ last_event = [type |-> "start", arr |-> <<>>]
    /\ sink = <<>>
    /\ nbatches = 0
    /\ stop_event = FALSE
    /\ pc = "loop"
    /\ timer = 0
    /\ backoff = BackoffStart
    /\ elapsed = 0
    /\ manager = "idle"
    /\ last_fault = ""
    /\ last_entry_id = <<>>
    /\ headers = <<>>
    /\ carried = <<>>
    /\ connections = {}
    /\ prefs = << >>
    /\ stream_thread = [ws \in WS |-> None]
    /\ stream_stop_evt = [ws \in WS |-> None]
    /\ current_stream_filters = [ws \in WS |-> EmptyFilters]
    /\ threads = <<>>
    /\ fired = {}
    /\ steps = <<>>
    /\ acks = <<>>
    /\ last_frame = <<>>
    /\ last_broadcast = <<>>
    /\ nframes = 0
    /\ lock = 0
    /\ tasks = <<>>
    /\ outbox = [ws \in WS |-> <<>>]
    /\ closed = {}
    /\ state_lock = 0
    /\ batch_calls = [w \in Workers |-> NoCall]

InitCommon ==
    /\ InitBase
    /\ WorkerStart(WorkerLeagues, 2, WorkerBooks, 1)

\* the default environment: INGEST_FILTERS is not set (server/config.py:53)
InitState ==
    /\ InitCommon
    /\ ingest_filters_enabled = FALSE

Init ==
    /\ InitState
    /\ call = <<>>
    /\ result = <<>>

Payload(n, kind) == [batch |-> n, kind |-> kind]

\* lines 434-439 before lines 426-428: the EV payload ahead of the grouped one
EmittedEvFirst(n, payload, evs, arbs) ==
    (IF evs # <<>> THEN <<Payload(n, "ev")>> ELSE <<>>)
        \o (IF DOMAIN payload # {} THEN <<Payload(n, "raw")>> ELSE <<>>)
        \o [i \in 1..Len(arbs) |-> Payload(n, "arbitrage")]

\* lines 426-439: the on_payload calls of the n-th odds event, in order
Emitted(n, payload, evs, arbs) ==
    (IF DOMAIN payload # {} THEN <<Payload(n, "raw")>> ELSE <<>>)
        \o (IF evs # <<>> THEN <<Payload(n, "ev")>> ELSE <<>>)
        \o [i \in 1..Len(arbs) |-> Payload(n, "arbitrage")]

\* lines 299-439: the grouped payload is built, stored and emitted with the lists
OddsEventEmit(payload, evs, arbs) ==
    /\ grouped' = payload
    /\ sink' = sink \o Emitted(nbatches + 1, payload, evs, arbs)

\* the state after the event, given the result r of process_odds_batch
OddsEventDone(arr, r) ==
    /\ market_state' = r.ms
    /\ fixture_meta' = r.fm
    /\ fixture_meta_fetched' = r.fetched
    /\ ev_cache' = r.cache
    /\ ev_items' = r.evs
    /\ arbitrages' = r.arbs
    /\ arb_calls' = r.calls
    /\ fair_used' = r.fairs
    /\ OddsEventEmit(GroupedPayload(arr, r.fm, r.evs), r.evs, r.arbs)

\* an `odds` / `locked-odds` event carrying arr (lines 221-451)
OddsEvent(arr, order, answers) ==
    /\ nbatches < MaxBatches
    /\ arr # <<>>
    /\ order \in Perms(AffectedKeys(Sport, arr))
    /\ OddsEventDone(arr, process_odds_batch(market_state, RefreshMeta(fixture_meta, arr),
                                             fixture_meta_fetched, ev_cache, Sport, arr,
                                             order, answers))
    /\ fetches' = Counted(fetches, batch_fetches(market_state, RefreshMeta(fixture_meta, arr),
                                                 fixture_meta_fetched, ev_cache, Sport, arr,
                                                 order, answers))
    /\ last_items' = arr
    /\ admitted' = admitted \o Admissions(Sport, arr)
    /\ meta_prev' = fixture_meta
    /\ ev_prev' = ev_items
    /\ last_event' = [type |-> "odds", arr |-> arr]
    /\ nbatches' = nbatches + 1
    /\ UNCHANGED controlVars

\* a `fixture-status` event carrying arr (lines 453-476)
FixtureStatusEvent(arr) ==
    /\ arr # <<>>
    /\ fixture_meta' = RefreshMeta(fixture_meta, arr)
    /\ meta_prev' = fixture_meta
    /\ last_event' = [type |-> "fixture-status", arr |-> arr]
    /\ UNCHANGED <<market_state, ev_cache, fixture_meta_fetched, fetches, ev_items, arbitrages,
                   arb_calls, fair_used, grouped, last_items, admitted, ev_prev, sink, nbatches>>
    /\ UNCHANGED controlVars

\* the seed fetch of fixtures/active at the start of the worker, before the stream is
\* read (lines 104-138)
SeedFetch(arr) ==
    /\ last_event.type = "start"
    /\ arr # <<>>
    /\ fixture_meta' = RefreshMeta(fixture_meta, arr)
    /\ meta_prev' = fixture_meta
    /\ last_event' = [type |-> "seed", arr |-> arr]
    /\ UNCHANGED <<market_state, ev_cache, fixture_meta_fetched, fetches, ev_items, arbitrages,
                   arb_calls, fair_used, grouped, last_items, admitted, ev_prev, sink, nbatches>>
    /\ UNCHANGED controlVars

(***************************************************************************)
(* The hub: connections and their preferences.  A JSON value that may be   *)
(* missing is <<>> when it is missing and <<v>> when it is there; a filter *)
(* value is the sequence of its parts (the items of a list, or the pieces  *)
(* of a string between its commas).                                        *)
(***************************************************************************)
DefaultOddsFormat == "decimal"

\* Hub.connect, lines 33-48
DefaultPrefs ==
    [prod_type |-> "all", ev_threshold |-> 0, arb_threshold |-> 0,
     odds_format |-> DefaultOddsFormat, filters |-> EmptyFilters,
     quiet_controls |-> TRUE, debug_scope |-> FALSE]

\* normalize_filter_values: the parts stripped and lower-cased, the empty ones dropped
normalize_filter_values(value) ==
    {Lower(Strip(value[i])) : i \in {j \in 1..Len(value) : Strip(value[j]) # ""}}

\* Hub.set_prod_type after `if v in ("ev", "arbitrage", "all")`
SetProdType(p, data) ==
    IF Lower(Strip(data.prod_type)) \in {"ev", "arbitrage", "all"}
    THEN [p EXCEPT !.prod_type = Lower(Strip(data.prod_type))]
    ELSE p

\* Hub.set_odds_format after `if ofmt in ("decimal", "american")`
SetOddsFormat(p, data) ==
    IF data.odds_format # <<>> /\ Lower(Strip(data.odds_format[1])) \in {"decimal", "american"}
    THEN [p EXCEPT !.odds_format = Lower(Strip(data.odds_format[1]))]
    ELSE p

\* Hub.set_ev_threshold and Hub.set_arb_threshold
SetThresholds(p, data) ==
    [p EXCEPT !.ev_threshold = IF data.ev_threshold # <<>> THEN data.ev_threshold[1] ELSE @,
              !.arb_threshold = IF data.arb_threshold # <<>> THEN data.arb_threshold[1] ELSE @]

\* app.py lines 165-182: quiet, then ack, then debug_scope
SetToggles(p, data) ==
    [p EXCEPT !.quiet_controls = IF data.ack # <<>> THEN ~data.ack[1]
                                 ELSE IF data.quiet # <<>> THEN data.quiet[1] ELSE @,
              !.debug_scope = IF data.debug_scope # <<>> THEN data.debug_scope[1] ELSE @]

\* the preferences after every setter but update_filters
AfterSetters(p, data) ==
    SetToggles(SetThresholds(SetOddsFormat(SetProdType(p, data), data), data), data)

FilterKeys == {"sport", "market", "sportsbook", "league", "sportbook"}

\* app.py lines 145-157: the top-level keys, overwritten by those of the filters object
FilterUpdates(data) ==
    [fk \in FilterKeys |->
        IF data.filters # <<>> /\ data.filters[1][fk] # <<>>
        THEN data.filters[1][fk]
        ELSE data[fk]]

\* `if filter_updates:`
HasUpdates(updates) == \E fk \in FilterKeys : updates[fk] # <<>>

\* str(v).strip().lower() in ("1", "true", "yes", "on")
Truthy(v) == Lower(Strip(v)) \in {"1", "true", "yes", "on"}

\* `if not fobj:` for a filters object
EmptyObject(fobj) ==
    /\ \A fk \in FilterKeys : fobj[fk] = <<>>
    /\ fobj.replace = "" /\ fobj.clear = "" /\ fobj.reset = ""

\* app.py lines 151-161
FiltersReset(data) ==
    \/ /\ data.filters # <<>>
       /\ \/ EmptyObject(data.filters[1])
          \/ Truthy(Or(data.filters[1].replace, Or(data.filters[1].clear, data.filters[1].reset)))
    \/ Truthy(Or(data.filters_replace, Or(data.filters_clear, data.clear_filters)))

\* Hub.update_filters, lines 97-103: "sportbook" is applied last, to the sportsbook set
AxisAfter(f, updates, k) ==
    IF k = "sportsbook" /\ updates["sportbook"] # <<>>
    THEN normalize_filter_values(updates["sportbook"][1])
    ELSE IF updates[k] # <<>> THEN normalize_filter_values(updates[k][1]) ELSE f[k]

\* the update with the reset of line 95 done for every frame
update_filters_always_reset(f, updates, reset) ==
    [k \in Axes |-> AxisAfter(EmptyFilters, updates, k)]

\* Hub.update_filters, lines 94-103
update_filters(f, updates, reset) ==
    [k \in Axes |-> AxisAfter(IF reset THEN EmptyFilters ELSE f, updates, k)]

\* app.py lines 184-185
ApplyFilters(p, data, updates) ==
    IF HasUpdates(updates)
    THEN [p EXCEPT !.filters = update_filters(p.filters, updates, FiltersReset(data))]
    ELSE p

\* the preferences of a connection after a control frame
PrefsAfter(p, data) == ApplyFilters(AfterSetters(p, data), data, FilterUpdates(data))

\* to_set of app.py over a set of strings
to_set(v) == {Lower(Strip(x)) : x \in v}

\* the snapshot without the market axis
SnapshotNoMarket(f) ==
    [sport |-> to_set(f.sport), sportsbook |-> to_set(f.sportsbook),
     league |-> to_set(f.league), market |-> {}]

\* app.py lines 198-203 and 115-120: the sorted lists of the four sets
Snapshot(f) ==
    [sport |-> to_set(f.sport), sportsbook |-> to_set(f.sportsbook),
     league |-> to_set(f.league), market |-> to_set(f.market)]

\* Hub.connect and the locals of stream (app.py lines 40-44, 123)
Connect(ws) ==
    /\ ws \notin connections
    /\ connections' = connections \cup {ws}
    /\ prefs' = [c \in connections \cup {ws} |-> IF c = ws THEN DefaultPrefs ELSE prefs[c]]
    /\ stream_thread' = [stream_thread EXCEPT ![ws] = None]
    /\ stream_stop_evt' = [stream_stop_evt EXCEPT ![ws] = None]
    /\ current_stream_filters' = [current_stream_filters EXCEPT ![ws] = EmptyFilters]
    /\ steps' = <<>>
    /\ acks' = <<>>
    /\ last_frame' = <<>>
    /\ UNCHANGED <<ingest_filters_enabled, threads, fired, last_broadcast, nframes,
                   engineVars, fleetVars, otherVars>>

\* a disconnect that sets the token of every connection
DisconnectAll(ws) ==
    /\ ws \in connections
    /\ fired' = fired \cup ({stream_stop_evt[c] : c \in WS} \ {None})
    /\ connections' = connections \ {ws}
    /\ prefs' = [c \in connections \ {ws} |-> prefs[c]]
    /\ steps' = <<>>
    /\ acks' = <<>>
    /\ last_frame' = <<>>
    /\ UNCHANGED <<ingest_filters_enabled, stream_thread, stream_stop_evt,
                   current_stream_filters, threads, last_broadcast, nframes,
                   engineVars, fleetVars, otherVars>>

\* app.py lines 225-235: the websocket is gone; the token is set and the hub forgets it
Disconnect(ws) ==
    /\ ws \in connections
    /\ fired' = fired \cup ({stream_stop_evt[ws]} \ {None})
    /\ connections' = connections \ {ws}
    /\ prefs' = [c \in connections \ {ws} |-> prefs[c]]
    /\ steps' = <<>>
    /\ acks' = <<>>
    /\ last_frame' = <<>>
    /\ UNCHANGED <<ingest_filters_enabled, stream_thread, stream_stop_evt,
                   current_stream_filters, threads, last_broadcast, nframes,
                   engineVars, fleetVars, otherVars>>

\* app.py line 94: the function the thread is given
ThreadTarget == "get_all_active_sportsbooks"

\* the keyword arguments of app.py lines 95-110 are parameters of subscribe_all_sports
\* (subscribe.py lines 26-42); get_all_active_sportsbooks takes none (catalogue.py:29)
AcceptsKwargs(target) == target = "subscribe_all_sports"

\* `sport_allow if (settings.ingest_filters_enabled and sport_allow) else None`;
\* None and the empty set both mean no restriction (subscribe.py lines 57, 86, 141)
Allow(enabled, v) == IF enabled THEN v ELSE {}

\* app.py lines 92-113: the thread object
NewThread(ws, enabled, f) ==
    [ws |-> ws, target |-> ThreadTarget, state |-> "started",
     sport_allow |-> Allow(enabled, to_set(f.sport)),
     sportsbook_allow |-> Allow(enabled, to_set(f.sportsbook)),
     league_allow |-> Allow(enabled, to_set(f.league))]

IsAlive(t) == t # None /\ threads[t].state # "dead"

\* start_streaming_if_needed, lines 63-120, with the preferences p of the websocket
start_streaming_if_needed(ws, thread, p) ==
    IF IsAlive(thread)
    THEN UNCHANGED <<stream_thread, stream_stop_evt, current_stream_filters, threads>>
    ELSE /\ threads' = Append(threads, NewThread(ws, ingest_filters_enabled, p.filters))
         /\ stream_thread' = [stream_thread EXCEPT ![ws] = Len(threads) + 1]
         /\ stream_stop_evt' = [stream_stop_evt EXCEPT ![ws] = Len(threads) + 1]
         /\ current_stream_filters' =
                [current_stream_filters EXCEPT ![ws] = Snapshot(p.filters)]

\* app.py lines 204-221: the old token is set, the old thread joined for at most 5 s,
\* and the stream started again
Restart(ws, p) ==
    /\ fired' = fired \cup ({stream_stop_evt[ws]} \ {None})
    /\ start_streaming_if_needed(ws, None, p)
    /\ steps' = (IF stream_stop_evt[ws] # None THEN <<[op |-> "set", token |-> stream_stop_evt[ws]]>>
                 ELSE <<>>)
             \o (IF stream_thread[ws] # None THEN <<[op |-> "join", token |-> stream_thread[ws]]>>
                 ELSE <<>>)
             \o <<[op |-> "start", token |-> Len(threads) + 1]>>

\* app.py lines 223-224
StartIfNone(ws, p) ==
    /\ UNCHANGED fired
    /\ IF stream_thread[ws] = None
       THEN /\ start_streaming_if_needed(ws, stream_thread[ws], p)
            /\ steps' = <<[op |-> "start", token |-> Len(threads) + 1]>>
       ELSE /\ UNCHANGED <<stream_thread, stream_stop_evt, current_stream_filters, threads>>
            /\ steps' = <<>>

\* the acks of Hub.update_filters (line 114) and of the restart (app.py line 219)
AcksOf(p, updated, restarted) ==
    IF p.quiet_controls THEN <<>>
    ELSE (IF updated THEN <<"filters_updated">> ELSE <<>>)
         \o (IF restarted THEN <<"stream_restarted">> ELSE <<>>)

\* app.py lines 184-224 with the preferences p the frame leaves
ControlFrameDone(ws, p, updated) ==
    /\ prefs' = [prefs EXCEPT ![ws] = p]
    /\ IF updated /\ Snapshot(p.filters) # current_stream_filters[ws]
       THEN Restart(ws, p)
       ELSE StartIfNone(ws, p)
    /\ acks' = AcksOf(p, updated, updated /\ Snapshot(p.filters) # current_stream_filters[ws])

\* app.py lines 126-224: one control frame, a JSON object
ControlFrame(ws, data) ==
    /\ ws \in connections
    /\ nframes < MaxFrames
    /\ nframes' = nframes + 1
    /\ last_frame' = <<[ws |-> ws, data |-> data, prefs |-> prefs, fired |-> fired,
                        stream_thread |-> stream_thread[ws],
                        stream_stop_evt |-> stream_stop_evt[ws],
                        current_stream_filters |-> current_stream_filters[ws],
                        threads |-> Len(threads)]>>
    /\ ControlFrameDone(ws, PrefsAfter(prefs[ws], data), HasUpdates(FilterUpdates(data)))
    /\ UNCHANGED <<ingest_filters_enabled, connections, last_broadcast, engineVars, fleetVars, otherVars>>

\* the thread runs its target with the keyword arguments: a TypeError ends it when the
\* target does not take them
ThreadRun(t) ==
    /\ t \in 1..Len(threads)
    /\ threads[t].state = "started"
    /\ threads' = [threads EXCEPT ![t].state =
                      IF AcceptsKwargs(threads[t].target) THEN "manager" ELSE "dead"]
    /\ UNCHANGED <<ingest_filters_enabled, connections, prefs, stream_thread, stream_stop_evt,
                   current_stream_filters, fired, steps, acks, last_frame, last_broadcast,
                   nframes, engineVars, fleetVars, otherVars>>

(***************************************************************************)
(* The filter predicates (server/filters.py) and Hub.broadcast.            *)
(***************************************************************************)
\* norm_token: strip and lower
norm_token(x) == Lower(Strip(x))

CleanTable == ( "bet-x" :> "betx" @@ "1h moneyline" :> "1hmoneyline" )

\* norm_clean: lower, then everything but a-z and 0-9 removed
norm_clean(x) == IF Lower(x) \in DOMAIN CleanTable THEN CleanTable[Lower(x)] ELSE Lower(x)

CanonTable ==
    ( "1h moneyline" :> "h1moneyline" @@ "team total" :> "teamtotal"
   @@ "anytime goalscorer" :> "anytimegoalscorer" @@ "total games" :> "totalgames" )

\* canon_market_text: periods to q1..q4 / h1 / h2, ignorable words and every
\* non-alphanumeric removed
canon_market_text(x) ==
    IF Strip(Lower(x)) \in DOMAIN CanonTable THEN CanonTable[Strip(Lower(x))]
    ELSE Strip(Lower(x))

norm_market(x) == canon_market_text(x)

LeagueAliases ==
    ( "ncaaf" :> "ncaafootball" @@ "ncaafb" :> "ncaafootball" @@ "ncaam" :> "ncaabasketball"
   @@ "ncaab" :> "ncaabasketball" @@ "ncaaw" :> "ncaawbasketball" )

\* norm_league_alias; no league of the model holds "collegefootball"
norm_league_alias(x) ==
    IF norm_clean(x) \in DOMAIN LeagueAliases THEN LeagueAliases[norm_clean(x)]
    ELSE norm_clean(x)

\* Python's `a in b` for strings: the empty string is in every string
In(a, b) == a = "" \/ Contains(a, b)

\* normalize_filter_values over a set
NormalizedSet(v) == {Lower(Strip(x)) : x \in {y \in v : Strip(y) # ""}}

\* FilterSets.from_prefs
FilterSets(f) ==
    [sport |-> NormalizedSet(f.sport),
     market_raw |-> NormalizedSet(f.market),
     market_norm |-> {norm_market(v) : v \in NormalizedSet(f.market)},
     sportsbook_raw |-> NormalizedSet(f.sportsbook),
     sportsbook_clean |-> {norm_clean(v) : v \in NormalizedSet(f.sportsbook)},
     league_raw |-> NormalizedSet(f.league),
     league_clean |-> {norm_league_alias(v) : v \in NormalizedSet(f.league)}]

\* the test with every filter value instead of any
InEvery(v, S) == \A fv \in S : fv = v \/ (fv # "" /\ In(fv, v))

\* `v in S or any(f and f in v for f in S)`
InOrContains(v, S) == v \in S \/ \E fv \in S : fv # "" /\ In(fv, v)

\* the league test of ev_matches (line 147) and league_match (transform.py:204-208)
LeagueMatches(v, S) == \E lv \in S : lv # "" /\ (In(lv, v) \/ In(v, lv))

\* ev_matches
ev_matches(e, fs) ==
    /\ fs.sport # {} => norm_token(e.sport) \in fs.sport
    /\ fs.market_raw # {} => InOrContains(norm_market(e.market), fs.market_norm)
    /\ fs.sportsbook_raw # {} => InOrContains(norm_clean(e.sportsbook), fs.sportsbook_clean)
    /\ fs.league_raw # {} => LeagueMatches(norm_league_alias(e.league), fs.league_clean)

\* arb_matches: the league is not looked at
arb_matches(a, fs) ==
    /\ fs.sport # {} => norm_token(a.sport) \in fs.sport
    /\ fs.market_raw # {} => InOrContains(norm_market(a.market_name), fs.market_norm)
    /\ fs.sportsbook_raw # {} =>
          \E i \in 1..Len(a.outcomes) :
              InOrContains(norm_clean(a.outcomes[i].sports_book_name), fs.sportsbook_clean)

\* filter_grouped_raw_odds for one odds entry of one game of one book
raw_matches(o, fs) ==
    /\ fs.sportsbook_raw # {} =>
          \E fv \in fs.sportsbook_clean : fv # "" /\ In(fv, norm_clean(o.sportsbook))
    /\ fs.sport # {} => norm_token(o.sport) \in fs.sport
    /\ fs.league_raw # {} => LeagueMatches(norm_league_alias(o.league), fs.league_clean)
    /\ fs.market_raw # {} =>
          \E fm \in fs.market_raw :
              canon_market_text(fm) # "" /\ In(canon_market_text(fm), canon_market_text(o.market))

\* filters_echo
FiltersEcho(fs) ==
    [sport |-> fs.sport, market |-> fs.market_raw, sportsbook |-> fs.sportsbook_raw,
     league |-> fs.league_raw]

\* group_ev_list, line 129
BookName(e) == Or(Strip(e.sportsbook), "Unknown")

\* group_ev_list, lines 148-158: the odds object of one EV entry
GroupedOdds(e) ==
    [book |-> BookName(e), fixture_id |-> e.fixture_id,
     sports_book_name |-> Lower(BookName(e)), market |-> Lower(Strip(e.market)),
     name |-> e.name, price |-> e.price, ev_value |-> e.ev_value, is_live |-> e.is_live]

\* the index of the first entry with the book of entry i
FirstOfBook(list, i) ==
    CHOOSE j \in 1..i :
        /\ BookName(list[j]) = BookName(list[i])
        /\ \A k \in 1..(j - 1) : BookName(list[k]) # BookName(list[i])

\* the place of entry i once the entries are grouped by book, the books in the order
\* of their first entry
PlaceInGroups(list, i) ==
    1 + Cardinality({k \in 1..Len(list) :
            \/ FirstOfBook(list, k) < FirstOfBook(list, i)
            \/ FirstOfBook(list, k) = FirstOfBook(list, i) /\ k < i})

\* group_ev_list: the odds objects, book by book
group_ev_list(list) ==
    [n \in 1..Len(list) |->
        GroupedOdds(list[CHOOSE i \in 1..Len(list) : PlaceInGroups(list, i) = n])]

\* a frame sent to a websocket
Frame(kind, body, echo) == [kind |-> kind, body |-> body, filters |-> echo]

\* the gate without the threshold
ArbPassesAny(pct, th) == TRUE

\* line 209: arb_pct >= arb_th
ArbPasses(pct, th) == pct >= th

\* the gate without the threshold
EvPassesAny(evv, th) == TRUE

\* lines 217-227: evv >= ev_th when ev_th > 0
EvPasses(evv, th) == th > 0 => evv >= th

\* lines 216-227
EvKept(list, fs, th) ==
    SelectSeq(list, LAMBDA e : ev_matches(e, fs) /\ EvPasses(e.ev_value, th))

\* lines 170 and 186: the entries that pass the filters
Matching(list, fs, Test(_, _)) == SelectSeq(list, LAMBDA e : Test(e, fs))

\* one frame around the entries when there are any
FrameIfAny(kind, body) == IF body # <<>> THEN <<Frame(kind, body, <<>>)>> ELSE <<>>

\* prod_type all with what is neither EV nor arbitrage nor grouped odds sent as it is
FramesForAllPassthrough(payload, fs) ==
    IF payload.kind = "ev"
    THEN FrameIfAny("ev", group_ev_list(Matching(payload.ev, fs, ev_matches)))
    ELSE IF payload.kind = "arbitrage"
    THEN IF arb_matches(payload.arbitrage[1], fs)
         THEN <<Frame("arbitrage", payload.arbitrage, <<>>)>>
         ELSE <<>>
    ELSE IF payload.kind = "raw"
    THEN FrameIfAny("raw", Matching(payload.raw, fs, raw_matches))
    ELSE <<Frame(payload.kind, payload, <<>>)>>

\* lines 165-190: prod_type all; an object without a "payload" key has no `obj` to send
FramesForAll(payload, fs) ==
    IF payload.kind = "ev"
    THEN FrameIfAny("ev", group_ev_list(Matching(payload.ev, fs, ev_matches)))
    ELSE IF payload.kind = "arbitrage"
    THEN IF arb_matches(payload.arbitrage[1], fs)
         THEN <<Frame("arbitrage", payload.arbitrage, <<>>)>>
         ELSE <<>>
    ELSE IF payload.kind = "raw"
    THEN FrameIfAny("raw", Matching(payload.raw, fs, raw_matches))
    ELSE <<>>

\* lines 191-210: prod_type arbitrage
FramesForArbitrage(payload, fs, th) ==
    IF /\ payload.kind = "arbitrage"
       /\ ArbPasses(payload.arbitrage[1].arbitrage_percent, th)
       /\ arb_matches(payload.arbitrage[1], fs)
    THEN <<Frame("arbitrage", payload.arbitrage, <<FiltersEcho(fs)>>)>>
    ELSE <<>>

\* lines 211-232: prod_type ev
FramesForEv(payload, fs, th) ==
    IF payload.kind = "ev"
    THEN FrameIfAny("ev", group_ev_list(EvKept(payload.ev, fs, th)))
    ELSE <<>>

\* lines 144-235: the frames one websocket is sent for a payload
FramesFor(pref, payload, fs) ==
    IF pref.prod_type = "all" THEN FramesForAll(payload, fs)
    ELSE IF pref.prod_type = "arbitrage" THEN FramesForArbitrage(payload, fs, pref.arb_threshold)
    ELSE IF pref.prod_type = "ev" THEN FramesForEv(payload, fs, pref.ev_threshold)
    ELSE <<Frame(payload.kind, payload, <<>>)>>

\* Hub.broadcast: every send succeeds
Broadcast(payload) ==
    /\ last_broadcast' =
          <<[payload |-> payload, prefs |-> prefs,
             delivered |-> [ws \in connections |->
                 FramesFor(prefs[ws], payload, FilterSets(prefs[ws].filters))]]>>
    /\ UNCHANGED <<ingest_filters_enabled, connections, prefs, stream_thread, stream_stop_evt,
                   current_stream_filters, threads, fired, steps, acks, last_frame, nframes,
                   engineVars, fleetVars, otherVars>>

\* a filters object with no key
NoFilters ==
    [sport |-> <<>>, market |-> <<>>, sportsbook |-> <<>>, league |-> <<>>, sportbook |-> <<>>,
     replace |-> "", clear |-> "", reset |-> ""]

\* a control frame with no key: the JSON object {}
NoData ==
    [prod_type |-> "", odds_format |-> <<>>, ev_threshold |-> <<>>, arb_threshold |-> <<>>,
     sport |-> <<>>, market |-> <<>>, sportsbook |-> <<>>, league |-> <<>>, sportbook |-> <<>>,
     filters |-> <<>>, filters_replace |-> "", filters_clear |-> "", clear_filters |-> "",
     quiet |-> <<>>, ack |-> <<>>, debug_scope |-> <<>>]

\* the control frames a client sends
EndpointFrames ==
    { NoData,
      [NoData EXCEPT !.prod_type = "arbitrage", !.arb_threshold = <<4000>>],
      [NoData EXCEPT !.odds_format = <<"american">>, !.ev_threshold = <<2000>>,
                     !.ack = <<TRUE>>],
      [NoData EXCEPT !.sport = << <<" Tennis ">> >>],
      [NoData EXCEPT !.sport = << <<"tennis", "basketball">> >>],
      [NoData EXCEPT !.market = << <<"Moneyline", " ">> >>],
      [NoData EXCEPT !.sportbook = << <<"X">> >>],
      [NoData EXCEPT !.filters = <<[NoFilters EXCEPT !.sportsbook = << <<"Y">> >>,
                                                     !.league = << <<"ATP">> >>]>>],
      [NoData EXCEPT !.filters_clear = "True"],
      [NoData EXCEPT !.filters = <<NoFilters>>],
      [NoData EXCEPT !.filters = <<[NoFilters EXCEPT !.replace = " YES ",
                                                     !.sport = << <<"Basketball">> >>]>>],
      [NoData EXCEPT !.clear_filters = "1", !.league = << <<"WTA">> >>] }

NextEndpoint ==
    \/ \E ws \in WS : Connect(ws)
    \/ \E ws \in WS : Disconnect(ws)
    \/ \E ws \in WS : \E data \in EndpointFrames : ControlFrame(ws, data)
    \/ \E t \in 1..Len(threads) : ThreadRun(t)

\* INGEST_FILTERS may be set or not
InitEndpoint ==
    /\ InitCommon
    /\ ingest_filters_enabled \in BOOLEAN
    /\ call = <<>>
    /\ result = <<>>

SpecEndpoint == InitEndpoint /\ [][NextEndpoint]_vars

\* the payload of sse.py line 439 around one arbitrage record
ArbPayload(sport, pct) ==
    [kind |-> "arbitrage", ev |-> <<>>, raw |-> <<>>,
     arbitrage |-> <<[sport |-> sport, fixture_id |-> "G", market_name |-> "moneyline",
                      is_live |-> FALSE,
                      outcomes |-> <<[name |-> "Alcaraz", sports_book_name |-> "X", price |-> 2100],
                                     [name |-> "Sinner", sports_book_name |-> "Y", price |-> 2050]>>,
                      total_implied_percent |-> 100 * ProbOne - pct,
                      arbitrage_percent |-> pct]>>]

\* an EV record as process_odds_batch builds it
EvEntry(sport, market, book, league, evv) ==
    [sport |-> sport, fixture_id |-> "G", market |-> market, market_base |-> market,
     league |-> league, home_team |-> "Alcaraz", away_team |-> "Sinner", start_date |-> 0,
     name |-> "Alcaraz", price |-> 2100, sportsbook |-> book, is_live |-> FALSE,
     ev_value |-> evv]

\* the payload of sse.py line 437 around a list of EV records
EvPayload(list) == [kind |-> "ev", ev |-> list, raw |-> <<>>, arbitrage |-> <<>>]

\* one odds entry of the grouped payload of sse.py line 428, with its book and game
RawOdds(sport, market, book, league) ==
    [sport |-> sport, league |-> league, sportsbook |-> book, market |-> market,
     fixture_id |-> "G", name |-> "Alcaraz", price |-> 2100]

RawPayload(list) == [kind |-> "raw", raw |-> list, ev |-> <<>>, arbitrage |-> <<>>]

\* the payloads the workers hand to the hub
HubPayloads ==
    { ArbPayload(sp, pct) : sp \in {"tennis", "basketball"}, pct \in {3600, 4000, 4100} }
    \cup { EvPayload(l) : l \in
             { <<EvEntry("tennis", "moneyline", "X", "ATP", 4100)>>,
               <<EvEntry("tennis", "1h moneyline", "Y", "", 1500)>>,
               <<EvEntry("tennis", "moneyline", "X", "ATP", 4100),
                 EvEntry("tennis", "1h moneyline", "Y", "", 1500)>>,
               <<EvEntry("tennis", "1h moneyline", "Y", "", 2500),
                 EvEntry("basketball", "moneyline", "Bet-X", "", 2000),
                 EvEntry("tennis", "moneyline", "Y", "ATP", 4100)>> } }
    \cup { RawPayload(l) : l \in
             { <<RawOdds("tennis", "Moneyline", "X", "ATP")>>,
               <<RawOdds("tennis", "Moneyline", "X", "ATP"),
                 RawOdds("basketball", "Team Total", "Y", "")>> } }

\* the control frames of the subscribers of the hub
HubFrames ==
    { [NoData EXCEPT !.prod_type = "arbitrage", !.arb_threshold = <<4000>>],
      [NoData EXCEPT !.prod_type = " EV ", !.ev_threshold = <<2000>>],
      [NoData EXCEPT !.prod_type = "ev"],
      [NoData EXCEPT !.sport = << <<"tennis">> >>],
      [NoData EXCEPT !.sportsbook = << <<"X">> >>, !.market = << <<"Moneyline">> >>] }

\* the hub as the subscribers and the payload sink see it
NextHub ==
    \/ \E ws \in WS : Connect(ws)
    \/ \E ws \in WS : \E data \in HubFrames : ControlFrame(ws, data)
    \/ \E payload \in HubPayloads : Broadcast(payload)

SpecHub == Init /\ [][NextHub]_vars

(***************************************************************************)
(* The subscription manager and the connection loop of its worker.  Time   *)
(* advances in seconds; a blocking call (connect, read, sleep) holds the   *)
(* worker until something happens or its time is up.                       *)
(***************************************************************************)
Min(a, b) == IF a < b THEN a ELSE b

\* subscribe_all_sports, lines 136-190: the worker threads are started
ManagerStart ==
    /\ manager = "idle"
    /\ manager' = "waiting"
    /\ UNCHANGED <<stop_event, pc, timer, backoff, elapsed, chunkVars, engineVars, hubVars,
                   otherVars>>

\* subscribe_all_sports, lines 193-203: the wait ends when the token is set and the
\* function returns (the joins of lines 199-200 belong to the KeyboardInterrupt handler)
ManagerReturn ==
    /\ manager = "waiting"
    /\ stop_event
    /\ manager' = "returned"
    /\ UNCHANGED <<stop_event, pc, timer, backoff, elapsed, chunkVars, engineVars, hubVars,
                   otherVars>>

\* the owner of the token sets it (app.py:207, app.py:232)
FireToken ==
    /\ manager = "waiting"
    /\ ~stop_event
    /\ stop_event' = TRUE
    /\ elapsed' = 0
    /\ UNCHANGED <<pc, timer, backoff, manager, chunkVars, engineVars, hubVars, otherVars>>

\* line 177: headers = {"Last-Event-ID": str(last_entry_id)} if last_entry_id else {}
RequestHeaders(entry_id) == entry_id

\* lines 147-179: while not stop_event.is_set(), the request is built and sent
LoopCheck ==
    /\ manager # "idle"
    /\ pc = "loop"
    /\ pc' = IF stop_event THEN "exited" ELSE "connecting"
    /\ timer' = IF stop_event THEN 0 ELSE ConnectTimeout
    /\ headers' = IF stop_event THEN headers ELSE RequestHeaders(last_entry_id)
    /\ UNCHANGED <<stop_event, backoff, elapsed, manager, lg_subchunks, sb_subchunks, lg_idx,
                   sb_idx, last_fault, last_entry_id, carried, engineVars, hubVars,
                   otherVars>>

\* lines 179, 214-215: the stream is open, the backoff is reset
ConnectOk ==
    /\ pc = "connecting"
    /\ pc' = "reading"
    /\ timer' = ReadTimeout
    /\ backoff' = BackoffStart
    /\ UNCHANGED <<stop_event, elapsed, manager, chunkVars, engineVars, hubVars, otherVars>>

\* a backoff that grows by its first value instead of doubling
SleepLinear ==
    /\ pc' = "sleeping"
    /\ timer' = Min(backoff, MaxBackoff)
    /\ backoff' = Min(backoff + BackoffStart, MaxBackoff)

\* time.sleep(min(backoff, max_backoff)); backoff = min(backoff * 2, max_backoff)
Sleep ==
    /\ pc' = "sleeping"
    /\ timer' = Min(backoff, MaxBackoff)
    /\ backoff' = Min(backoff * 2, MaxBackoff)

\* the chunks put end to end
RECURSIVE Flat(_)
Flat(chunks) == IF chunks = <<>> THEN <<>> ELSE Head(chunks) \o Flat(Tail(chunks))

RECURSIVE Gcd(_, _)
Gcd(a, b) == IF b = 0 THEN a ELSE Gcd(b, a % b)

RECURSIVE LcmUpTo(_)
LcmUpTo(n) ==
    IF n <= 1 THEN 1 ELSE (LcmUpTo(n - 1) * n) \div Gcd(LcmUpTo(n - 1), n)

\* lg_idx and sb_idx only count up and are only read in `idx % len(chunks)` (lines
\* 148-149); an axis of n elements has at most n chunks, so the indices are kept modulo
\* the least common multiple of 1..n, which leaves every idx % len(chunks) as it is
IdxModulus ==
    LcmUpTo(IF Len(Flat(lg_subchunks)) > Len(Flat(sb_subchunks))
            THEN Len(Flat(lg_subchunks)) ELSE Len(Flat(sb_subchunks)))

\* `if lg_subchunks: lg_idx += 1`
Rotated(idx, chunks) == IF chunks # <<>> THEN (idx + 1) % IdxModulus ELSE idx

\* the index left as it is
NotRotated(idx, chunks) == idx

\* the rotation of lines 187-188 and 491-492
Rotate ==
    /\ lg_idx' = Rotated(lg_idx, lg_subchunks)
    /\ sb_idx' = Rotated(sb_idx, sb_subchunks)
    /\ UNCHANGED <<lg_subchunks, sb_subchunks>>

\* split_chunks, lines 196-204, for one chunk
Halves(ch) ==
    IF Len(ch) > 1
    THEN <<SubSeq(ch, 1, Len(ch) \div 2), SubSeq(ch, Len(ch) \div 2 + 1, Len(ch))>>
    ELSE <<ch>>

RECURSIVE split_chunks(_)
split_chunks(chunks) ==
    IF chunks = <<>> THEN <<>> ELSE Halves(Head(chunks)) \o split_chunks(Tail(chunks))

\* a bisection of the first chunk only
BisectedFirst(chunks) ==
    IF chunks = <<>> THEN <<>> ELSE Halves(Head(chunks)) \o Tail(chunks)

\* lines 205-208
Bisected(chunks) ==
    IF \E n \in DOMAIN chunks : Len(chunks[n]) > 1 THEN split_chunks(chunks) ELSE chunks

\* lines 180-189: requests.get raises a RequestException (the connection is refused, reset
\* or times out, the TLS handshake fails)
ConnectFail ==
    /\ pc = "connecting"
    /\ Sleep
    /\ Rotate
    /\ last_fault' = "request"
    /\ UNCHANGED <<resumeVars, stop_event, elapsed, manager, engineVars, hubVars, otherVars>>

\* lines 190-212: the answer has another status than 200; 400 and 414 bisect the chunks
\* and move both indices
BadStatus(status) ==
    /\ pc = "connecting"
    /\ Sleep
    /\ IF status \in {400, 414}
       THEN /\ lg_subchunks' = Bisected(lg_subchunks)
            /\ sb_subchunks' = Bisected(sb_subchunks)
            /\ lg_idx' = (lg_idx + 1) % IdxModulus
            /\ sb_idx' = (sb_idx + 1) % IdxModulus
       ELSE UNCHANGED <<lg_subchunks, sb_subchunks, lg_idx, sb_idx>>
    /\ last_fault' = (IF status \in {400, 414} THEN "bisect" ELSE "status")
    /\ UNCHANGED <<resumeVars, stop_event, elapsed, manager, engineVars, hubVars, otherVars>>

\* the sleep is over: back to line 147
Wake ==
    /\ pc = "sleeping"
    /\ timer = 0
    /\ pc' = "loop"
    /\ UNCHANGED <<stop_event, timer, backoff, elapsed, manager, chunkVars, engineVars, hubVars, otherVars>>

\* the events of the stream: their type and their entry_id, <<>> when they have none
StreamEvents ==
    {[event |-> e, entry_id |-> id] :
        e \in {"odds", "locked-odds", "fixture-status"}, id \in {<<>>, <<"e1">>}}

\* line 226: last_entry_id = data.get("entry_id")
EntryIdOf(event) == event.entry_id

\* lines 217-227: an event arrives; it is handled unless the token is set, and an odds or
\* locked-odds event leaves its entry_id in last_entry_id
EventArrives(event) ==
    /\ pc = "reading"
    /\ pc' = IF stop_event THEN "loop" ELSE "reading"
    /\ timer' = IF stop_event THEN 0 ELSE ReadTimeout
    /\ IF ~stop_event /\ event.event \in {"odds", "locked-odds"}
       THEN /\ last_entry_id' = EntryIdOf(event)
            /\ carried' = IF event.entry_id # <<>> THEN event.entry_id ELSE carried
       ELSE UNCHANGED <<last_entry_id, carried>>
    /\ UNCHANGED <<stop_event, backoff, elapsed, manager, lg_subchunks, sb_subchunks, lg_idx,
                   sb_idx, last_fault, headers, engineVars, hubVars, otherVars>>

\* lines 480-485: the stream breaks with a ChunkedEncodingError (the connection is reset
\* or closed in the middle of a chunk); the indices stay
StreamChunkedError ==
    /\ pc = "reading"
    /\ Sleep
    /\ lg_idx' = NotRotated(lg_idx, lg_subchunks)
    /\ sb_idx' = NotRotated(sb_idx, sb_subchunks)
    /\ last_fault' = "chunked"
    /\ UNCHANGED <<resumeVars, lg_subchunks, sb_subchunks, stop_event, elapsed, manager, engineVars,
                   hubVars, otherVars>>

\* lines 486-493: the read raises an SSLError or another RequestException (the read times
\* out, the TLS session breaks)
StreamFail ==
    /\ pc = "reading"
    /\ Sleep
    /\ Rotate
    /\ last_fault' = "request-loop"
    /\ UNCHANGED <<resumeVars, stop_event, elapsed, manager, engineVars, hubVars, otherVars>>

\* lines 494-499: any other exception of the loop body
LoopError ==
    /\ pc = "reading"
    /\ Sleep
    /\ last_fault' = "loop"
    /\ UNCHANGED <<resumeVars, lg_subchunks, sb_subchunks, lg_idx, sb_idx, stop_event, elapsed, manager,
                   engineVars, hubVars, otherVars>>

\* the server closes the stream: the for loop of line 217 ends
StreamEnds ==
    /\ pc = "reading"
    /\ pc' = "loop"
    /\ timer' = 0
    /\ UNCHANGED <<stop_event, backoff, elapsed, manager, chunkVars, engineVars, hubVars, otherVars>>

\* one second passes while the worker is held by a blocking call with time left
Tick ==
    /\ pc \in {"connecting", "sleeping", "reading"}
    /\ timer > 0
    /\ timer' = timer - 1
    /\ elapsed' = IF stop_event /\ elapsed < MaxElapsed THEN elapsed + 1 ELSE elapsed
    /\ UNCHANGED <<stop_event, pc, backoff, manager, chunkVars, engineVars, hubVars, otherVars>>

NextFleet ==
    \/ ManagerStart
    \/ ManagerReturn
    \/ FireToken
    \/ LoopCheck
    \/ ConnectOk
    \/ ConnectFail
    \/ \E status \in {400, 500} : BadStatus(status)
    \/ Wake
    \/ \E event \in StreamEvents : EventArrives(event)
    \/ StreamChunkedError
    \/ StreamFail
    \/ LoopError
    \/ StreamEnds
    \/ Tick

SpecFleet == Init /\ [][NextFleet]_vars

(***************************************************************************)
(* The worker started on partitions of several lengths and chunk sizes,    *)
(* answered with bad statuses only.                                        *)
(***************************************************************************)
Prefixes(list) == {SubSeq(list, 1, n) : n \in 0..Len(list)}

PartitionLeagues == <<"atp", "wta", "itf", "utr">>

PartitionBooks == <<"X", "Y", "Z">>

\* the arguments of sse_worker that decide its chunks
WorkerArgs ==
    {[fn |-> "sse_worker", leagues |-> l, sportsbooks |-> b,
      league_chunk_size |-> ls, sportsbook_chunk_size |-> bs] :
        l \in Prefixes(PartitionLeagues), b \in Prefixes(PartitionBooks),
        ls \in {0, 2}, bs \in {2}}

InitBisect ==
    /\ InitBase
    /\ ingest_filters_enabled = FALSE
    /\ call \in {<<a>> : a \in WorkerArgs}
    /\ WorkerStart(call[1].leagues, call[1].league_chunk_size,
                   call[1].sportsbooks, call[1].sportsbook_chunk_size)
    /\ result = <<>>

NextBisect ==
    \/ ManagerStart
    \/ LoopCheck
    \/ \E status \in {400, 414, 500} : BadStatus(status)
    \/ Wake
    \/ Tick

SpecBisect == InitBisect /\ [][NextBisect]_vars

(***************************************************************************)
(* Inputs.                                                                 *)
(***************************************************************************)
Batches(quotes) == UNION {[1..n -> quotes] : n \in 1..MaxBatchLen}

\* fixtures/active returns nothing (no key, no network, unknown fixture)
NoAnswers == [f \in {"G"} |-> <<>>]

\* one market quoted by two books: for one outcome a first price, a tie from the other
\* book, a higher price and an American price below 1.01; for the other outcome a price
\* that makes an arbitrage with the first and one that does not
BookQuotes ==
    { Quote("G", "Moneyline", "", "Alcaraz", "X", 0, 0, 2500, FALSE),
      Quote("G", "Moneyline", "", "Alcaraz", "Y", 0, 0, 2500, FALSE),
      Quote("G", "Moneyline", "", "Alcaraz", "Y", 4000, 0, 0, FALSE),
      Quote("G", "Moneyline", "", "Alcaraz", "X", 0, -20000, 0, FALSE),
      Quote("G", "Moneyline", "", "Sinner", "Y", 0, 0, 2500, FALSE),
      Quote("G", "Moneyline", "", "Sinner", "X", 0, 0, 1250, FALSE) }

Next ==
    \E arr \in Batches(BookQuotes) :
        \E order \in Perms(AffectedKeys(Sport, arr)) : OddsEvent(arr, order, NoAnswers)

Spec == Init /\ [][Next]_vars

\* four markets of one fixture: a team-total market whose two Lakers outcomes form a team
\* group, beside an outcome of another team; a non-exclusive market; a moneyline quoted at
\* prices whose implied total is in range (2.0 / 2.0) or below it (5.0 / 5.0); and the
\* same moneyline quoted for a period
EvQuotes ==
    { Quote("G", "Team Total", "", "Lakers Over 2.5", "X", 0, 0, 2000, FALSE),
      Quote("G", "Team Total", "", "Lakers Under 2.5", "X", 0, 0, 2000, FALSE),
      Quote("G", "Team Total", "", "Alcaraz", "X", 0, 0, 2000, FALSE),
      Quote("G", "Anytime Goalscorer", "", "Alcaraz", "X", 0, 0, 2000, FALSE),
      Quote("G", "Anytime Goalscorer", "", "Sinner", "X", 0, 0, 2000, FALSE),
      Quote("G", "Moneyline", "", "Alcaraz", "X", 0, 0, 2000, FALSE),
      Quote("G", "Moneyline", "", "Sinner", "Y", 0, 0, 2000, FALSE),
      Quote("G", "Moneyline", "", "Alcaraz", "X", 0, 0, 5000, FALSE),
      Quote("G", "Moneyline", "", "Sinner", "Y", 0, 0, 5000, FALSE),
      Quote("G", "Moneyline", "1H", "Alcaraz", "X", 0, 0, 2000, FALSE),
      Quote("G", "Moneyline", "1H", "Sinner", "Y", 0, 0, 2000, FALSE) }

NextEV ==
    \E arr \in Batches(EvQuotes) :
        \E order \in Perms(AffectedKeys(Sport, arr)) : OddsEvent(arr, order, NoAnswers)

SpecEV == Init /\ [][NextEV]_vars

\* a quote or a fixture record that carries participants, a league and a start time
Named(q, home, away, lg, st) ==
    [q EXCEPT !.home_team_display = home, !.away_team_display = away,
              !.league = lg, !.start_time = st]

\* a record of fixtures/active or of a fixture-status event
Fixture(fid, home, away, lg, st) ==
    Named(Quote(fid, "", "", "", "", 0, 0, 0, FALSE), home, away, lg, st)

\* a moneyline without participant fields, with them, and with placeholders for them
MetaQuotes ==
    { Quote("G", "Moneyline", "", "Alcaraz", "X", 0, 0, 2000, FALSE),
      Quote("G", "Moneyline", "", "Sinner", "Y", 0, 0, 2000, FALSE),
      Named(Quote("G", "Moneyline", "", "Alcaraz", "X", 0, 0, 2000, FALSE),
            "Alcaraz", "Sinner", "ATP", 5),
      Named(Quote("G", "Moneyline", "", "Sinner", "Y", 0, 0, 2000, FALSE),
            "N/A", "Over 22.5", "", 0) }

\* fixture records: complete, with placeholders only, and with one participant only
FixtureRecords ==
    { Fixture("G", "Sinner", "Alcaraz", "WTA", 7),
      Fixture("G", "", "N/A", "", 0),
      Fixture("G", "Alcaraz", "", "", 0) }

\* what fixtures/active may answer to the one-shot fetch of a fixture
FetchAnswers == {[f \in {"G"} |-> a] : a \in {<<>>} \cup {<<r>> : r \in FixtureRecords}}

NextMeta ==
    \/ \E arr \in Batches(FixtureRecords) : SeedFetch(arr)
    \/ \E arr \in Batches(FixtureRecords) : FixtureStatusEvent(arr)
    \/ \E arr \in Batches(MetaQuotes) :
          \E order \in Perms(AffectedKeys(Sport, arr)) :
              \E answers \in FetchAnswers : OddsEvent(arr, order, answers)

SpecMeta == Init /\ [][NextMeta]_vars

(***************************************************************************)
(* The filter predicates as functions of the filter sets.                  *)
(***************************************************************************)
\* the filter sets a connection can hold over two values per axis
FilterUniverse ==
    [sport : SUBSET {"tennis", "basketball"}, market : SUBSET {"moneyline", "team total"},
     sportsbook : SUBSET {"x", "y"}, league : SUBSET {"atp", "wta"}]

\* payloads of one entry each
OneEntryPayloads ==
    { EvPayload(<<EvEntry("tennis", "moneyline", "X", "ATP", 4100)>>),
      EvPayload(<<EvEntry("basketball", "1h moneyline", "Y", "", 1500)>>),
      EvPayload(<<EvEntry("tennis", "team total", "Bet-X", "WTA", 2000)>>),
      ArbPayload("tennis", 4100),
      ArbPayload("basketball", 3600),
      RawPayload(<<RawOdds("tennis", "Moneyline", "X", "ATP")>>),
      RawPayload(<<RawOdds("basketball", "Team Total", "Y", "")>>) }

\* ev_matches, arb_matches or the tests of filter_grouped_raw_odds, by the kind of entry
Accepted(payload, fs) ==
    IF payload.kind = "ev" THEN ev_matches(payload.ev[1], fs)
    ELSE IF payload.kind = "arbitrage" THEN arb_matches(payload.arbitrage[1], fs)
    ELSE raw_matches(payload.raw[1], fs)

\* F is a subset of G on every axis
SubFilters(F, G) == \A k \in Axes : F[k] \subseteq G[k]

\* the pairs of filter sets of which the first is within the second
FilterPairs == {FG \in FilterUniverse \X FilterUniverse : SubFilters(FG[1], FG[2])}

\* one entry, and two filter sets of which the first is within the second
InitFilters ==
    /\ InitState
    /\ call \in { <<[fn |-> "matches", payload |-> p, F |-> FG[1], G |-> FG[2]]>> :
                    p \in OneEntryPayloads, FG \in FilterPairs }
    /\ result = <<>>

\* the entry is tested under both filter sets
MatchCall ==
    /\ call # <<>>
    /\ call[1].fn = "matches"
    /\ result = <<>>
    /\ result' = <<[under |-> Accepted(call[1].payload, FilterSets(call[1].F)),
                    over |-> Accepted(call[1].payload, FilterSets(call[1].G))]>>
    /\ UNCHANGED <<call, engineVars, fleetVars, hubVars, loopVars, workerVars>>

NextFilters == MatchCall

SpecFilters == InitFilters /\ [][NextFilters]_vars

(***************************************************************************)
(* The coroutines of the hub on the event loop (server/hub.py, app.py      *)
(* lines 46-60).  A coroutine is a task: where it is and its locals.  It   *)
(* takes hub.lock in one step, together with what it does under the lock,  *)
(* and releases it in the next; a send_text is a step of its own that      *)
(* either delivers the frame or raises.                                    *)
(***************************************************************************)
MaxTasks == 2

\* the payload of subscribe.py line 61: an "error" key and no "payload" key
ErrorPayload ==
    [kind |-> "error",
     error |-> [where |-> "subscribe_all_sports", message |-> "no_sportsbooks",
                api_key_present |-> FALSE, sports_count |-> 0]]

\* the scope summary of subscribe.py lines 117-131
ScopePayload ==
    [kind |-> "control", control |-> "stream_scope", sports |-> <<"tennis">>,
     sportsbooks |-> <<"X", "Y">>]

\* self.prefs.get(ws, {}) read with the defaults of the .get calls that follow it
NoPrefs ==
    [prod_type |-> "all", ev_threshold |-> 0, arb_threshold |-> 0,
     odds_format |-> DefaultOddsFormat, filters |-> EmptyFilters,
     quiet_controls |-> FALSE, debug_scope |-> FALSE]

PrefsGet(ws) == IF ws \in DOMAIN prefs THEN prefs[ws] ELSE NoPrefs

\* a coroutine before its first step
NewTask(kind, ws, payload) ==
    [kind |-> kind, pc |-> "start", ws |-> ws, payload |-> payload, targets |-> <<>>,
     i |-> 1, pref |-> <<>>, frames |-> <<>>, dead |-> <<>>, visited |-> <<>>]

\* the orders list(self.connections) may give
Orders(S) ==
    {o \in UNION {[1..n -> S] : n \in {Cardinality(S)}} :
        \A a, b \in DOMAIN o : a # b => o[a] # o[b]}

\* where a task holds the lock
LockedPcs == {"have_targets", "have_pref", "removed", "updated", "returned", "have_quiet",
              "have_scope"}

\* asyncio.run_coroutine_threadsafe(hub.broadcast(payload), loop), app.py line 47
BroadcastStart(payload) ==
    /\ Len(tasks) < MaxTasks
    /\ tasks' = Append(tasks, NewTask("broadcast", None, payload))
    /\ UNCHANGED <<lock, outbox, closed, engineVars, fleetVars, hubVars, callVars, workerVars>>

\* hub.update_filters(ws, updates, reset=...), app.py line 185
UpdateFiltersStart(ws, updates, reset) ==
    /\ Len(tasks) < MaxTasks
    /\ ws \in connections
    /\ tasks' = Append(tasks, NewTask("update_filters", ws, [updates |-> updates, reset |-> reset]))
    /\ UNCHANGED <<lock, outbox, closed, engineVars, fleetVars, hubVars, callVars, workerVars>>

\* asyncio.run_coroutine_threadsafe(_send_if_needed(), loop), app.py line 58
ScopeStart(ws, payload) ==
    /\ Len(tasks) < MaxTasks
    /\ ws \in connections
    /\ tasks' = Append(tasks, NewTask("scope", ws, payload))
    /\ UNCHANGED <<lock, outbox, closed, engineVars, fleetVars, hubVars, callVars, workerVars>>

\* a coroutine that returned: pref and the frame are gone with it
Done(task) == [task EXCEPT !.pc = "done", !.pref = <<>>, !.frames = <<>>]

\* the loop of hub.py line 144 goes to its next target, or ends: with no dead connection
\* the broadcast is over
LoopOrEnd(task) ==
    IF task.i <= Len(task.targets) THEN [task EXCEPT !.pc = "loop", !.pref = <<>>, !.frames = <<>>]
    ELSE IF task.dead # <<>> THEN [task EXCEPT !.pc = "after_loop", !.pref = <<>>, !.frames = <<>>]
    ELSE Done(task)

\* hub.py lines 140-141: targets = list(self.connections) under the lock
TakeTargets(t) ==
    /\ tasks[t].kind = "broadcast" /\ tasks[t].pc = "start"
    /\ lock = 0
    /\ lock' = t
    /\ \E o \in Orders(connections) :
          tasks' = [tasks EXCEPT ![t].pc = "have_targets", ![t].targets = o]
    /\ UNCHANGED <<outbox, closed, engineVars, fleetVars, hubVars, callVars, workerVars>>

\* hub.py lines 146-147: pref = dict(self.prefs.get(ws, {})) under the lock
TakePref(t) ==
    /\ tasks[t].kind = "broadcast" /\ tasks[t].pc = "loop"
    /\ lock = 0
    /\ lock' = t
    /\ tasks' = [tasks EXCEPT ![t].pc = "have_pref",
                              ![t].pref = <<PrefsGet(tasks[t].targets[tasks[t].i])>>]
    /\ UNCHANGED <<outbox, closed, engineVars, fleetVars, hubVars, callVars, workerVars>>

\* hub.py lines 148-235 up to the send: the frame for this target, if any
WithFrames(task, frames) ==
    IF frames # <<>>
    THEN [task EXCEPT !.pc = "send", !.frames = frames]
    ELSE LoopOrEnd([task EXCEPT !.i = @ + 1, !.frames = <<>>,
                                !.visited = Append(@, task.targets[task.i])])

\* the websockets of a list
Members(list) == {list[n] : n \in DOMAIN list}

\* hub.py lines 244-248: the dead connections leave both collections under the lock
RemoveDead(t) ==
    /\ tasks[t].kind = "broadcast" /\ tasks[t].pc = "after_loop"
    /\ lock = 0
    /\ lock' = t
    /\ connections' = connections \ Members(tasks[t].dead)
    /\ prefs' = [c \in DOMAIN prefs \ Members(tasks[t].dead) |-> prefs[c]]
    /\ tasks' = [tasks EXCEPT ![t].pc = "removed"]
    /\ UNCHANGED <<ingest_filters_enabled, stream_thread, stream_stop_evt,
                   current_stream_filters, threads, fired, steps, acks, last_frame,
                   last_broadcast, nframes, outbox, closed, engineVars, fleetVars, callVars, workerVars>>

\* the ack of hub.py line 114
AckFrame(f) == Frame("control", [control |-> "filters_updated", filters |-> FiltersEcho(FilterSets(f))], <<>>)

\* hub.py lines 90-109: the filters of the connection updated under the lock, or the
\* return of line 92
TakeUpdate(t) ==
    /\ tasks[t].kind = "update_filters" /\ tasks[t].pc = "start"
    /\ lock = 0
    /\ lock' = t
    /\ IF tasks[t].ws \notin DOMAIN prefs
       THEN /\ tasks' = [tasks EXCEPT ![t].pc = "returned"]
            /\ UNCHANGED prefs
       ELSE /\ prefs' = [prefs EXCEPT ![tasks[t].ws].filters =
                            update_filters(@, tasks[t].payload.updates, tasks[t].payload.reset)]
            /\ tasks' = [tasks EXCEPT ![t].pc = "updated",
                            ![t].frames = <<AckFrame(prefs'[tasks[t].ws].filters)>>]
    /\ UNCHANGED <<ingest_filters_enabled, connections, stream_thread, stream_stop_evt,
                   current_stream_filters, threads, fired, steps, acks, last_frame,
                   last_broadcast, nframes, outbox, closed, engineVars, fleetVars, callVars, workerVars>>

\* hub.py lines 111-112: quiet read under the lock
TakeQuiet(t) ==
    /\ tasks[t].kind = "update_filters" /\ tasks[t].pc = "quiet"
    /\ lock = 0
    /\ lock' = t
    /\ tasks' = [tasks EXCEPT ![t].pc = "have_quiet", ![t].pref = <<PrefsGet(tasks[t].ws)>>]
    /\ UNCHANGED <<outbox, closed, engineVars, fleetVars, hubVars, callVars, workerVars>>

\* app.py lines 53-55: dbg and quiet read under the lock
TakeScope(t) ==
    /\ tasks[t].kind = "scope" /\ tasks[t].pc = "start"
    /\ lock = 0
    /\ lock' = t
    /\ tasks' = [tasks EXCEPT ![t].pc = "have_scope", ![t].pref = <<PrefsGet(tasks[t].ws)>>,
                              ![t].frames = <<Frame("control", tasks[t].payload, <<>>)>>]
    /\ UNCHANGED <<outbox, closed, engineVars, fleetVars, hubVars, callVars, workerVars>>

\* the lock kept by the task beyond its block
LockKept(t) == t

\* the lock once the task has left its `async with` block: free
LockAfterBlock(t) == 0

\* the task after its `async with` block
AfterBlock(task) ==
    IF task.pc = "have_targets" THEN LoopOrEnd(task)
    ELSE IF task.pc = "have_pref"
    THEN WithFrames(task, FramesFor(task.pref[1], task.payload, FilterSets(task.pref[1].filters)))
    ELSE IF task.pc = "updated" THEN [task EXCEPT !.pc = "quiet"]
    ELSE IF task.pc = "have_quiet"
    THEN IF task.pref[1].quiet_controls THEN Done(task) ELSE [task EXCEPT !.pc = "send"]
    ELSE IF task.pc = "have_scope"
    THEN IF task.pref[1].debug_scope /\ ~task.pref[1].quiet_controls
         THEN [task EXCEPT !.pc = "send"]
         ELSE Done(task)
    ELSE Done(task)

\* the end of an `async with self.lock:` block
Unlock(t) ==
    /\ tasks[t].pc \in LockedPcs
    /\ lock = t
    /\ lock' = LockAfterBlock(t)
    /\ tasks' = [tasks EXCEPT ![t] = AfterBlock(tasks[t])]
    /\ UNCHANGED <<outbox, closed, engineVars, fleetVars, hubVars, callVars, workerVars>>

\* the broadcast gives up at the first send that raises
AfterSendAbort(task, ok) ==
    IF task.kind # "broadcast" THEN Done(task)
    ELSE IF ok
    THEN LoopOrEnd([task EXCEPT !.i = @ + 1, !.visited = Append(@, task.targets[task.i])])
    ELSE [task EXCEPT !.pc = "after_loop", !.i = @ + 1, !.pref = <<>>, !.frames = <<>>,
                      !.visited = Append(@, task.targets[task.i]),
                      !.dead = Append(@, task.targets[task.i])]

\* hub.py lines 236-242: a send that raises marks the connection dead and the loop goes on;
\* hub.py lines 115-116 and app.py line 57: the ack and the scope summary are sent once
AfterSend(task, ok) ==
    IF task.kind # "broadcast" THEN Done(task)
    ELSE LoopOrEnd([task EXCEPT !.i = @ + 1,
                                !.visited = Append(@, task.targets[task.i]),
                                !.dead = IF ok THEN @ ELSE Append(@, task.targets[task.i])])

\* the websocket a task sends to
Recipient(task) == IF task.kind = "broadcast" THEN task.targets[task.i] ELSE task.ws

\* await ws.send_text(...): the frame is delivered, or the call raises, as it does on a
\* websocket that is closed
Send(t, ok) ==
    /\ tasks[t].pc = "send"
    /\ ok => Recipient(tasks[t]) \notin closed
    /\ outbox' = IF ok
                 THEN [outbox EXCEPT ![Recipient(tasks[t])] = @ \o tasks[t].frames]
                 ELSE outbox
    /\ tasks' = [tasks EXCEPT ![t] = AfterSend(tasks[t], ok)]
    /\ UNCHANGED <<lock, closed, engineVars, fleetVars, hubVars, callVars, workerVars>>

\* Hub.connect, lines 31-48, under the lock: a websocket is accepted once
LockedConnect(ws) == lock = 0 /\ ws \notin closed /\ Connect(ws)

\* app.py lines 225-235: the endpoint of the websocket ends with Hub.disconnect, lines
\* 50-53, under the lock
LockedDisconnect(ws) ==
    /\ lock = 0
    /\ ws \in connections \/ ws \in DOMAIN prefs
    /\ closed' = closed \cup {ws}
    /\ fired' = fired \cup ({stream_stop_evt[ws]} \ {None})
    /\ connections' = connections \ {ws}
    /\ prefs' = [c \in DOMAIN prefs \ {ws} |-> prefs[c]]
    /\ UNCHANGED <<ingest_filters_enabled, stream_thread, stream_stop_evt,
                   current_stream_filters, threads, steps, acks, last_frame, last_broadcast,
                   nframes, lock, tasks, outbox, engineVars, fleetVars, callVars, workerVars>>

\* the setters of hub.py lines 55-83 and app.py lines 165-182, each under the lock
SetPrefs(ws, data) ==
    /\ lock = 0
    /\ ws \in DOMAIN prefs
    /\ prefs[ws] # AfterSetters(prefs[ws], data)
    /\ prefs' = [prefs EXCEPT ![ws] = AfterSetters(@, data)]
    /\ UNCHANGED <<ingest_filters_enabled, connections, stream_thread, stream_stop_evt,
                   current_stream_filters, threads, fired, steps, acks, last_frame,
                   last_broadcast, nframes, engineVars, fleetVars, otherVars>>

\* what the workers and the manager hand to the payload sink
LoopPayloads ==
    {ErrorPayload, EvPayload(<<EvEntry("tennis", "moneyline", "X", "ATP", 4100)>>)}

\* the preferences the subscribers set
LoopSettings ==
    { [NoData EXCEPT !.prod_type = "ev", !.ack = <<TRUE>>, !.debug_scope = <<TRUE>>],
      [NoData EXCEPT !.prod_type = "arbitrage"] }

\* the filter updates the subscribers send
LoopUpdates == {[fk \in FilterKeys |-> IF fk = "sport" THEN << <<"basketball">> >> ELSE <<>>]}

NextSend ==
    \/ \E ws \in WS : LockedConnect(ws)
    \/ \E ws \in WS : LockedDisconnect(ws)
    \/ \E ws \in WS : \E data \in LoopSettings : SetPrefs(ws, data)
    \/ \E payload \in LoopPayloads : BroadcastStart(payload)
    \/ \E ws \in WS : \E u \in LoopUpdates : UpdateFiltersStart(ws, u, FALSE)
    \/ \E ws \in WS : ScopeStart(ws, ScopePayload)
    \/ \E t \in DOMAIN tasks : TakeTargets(t)
    \/ \E t \in DOMAIN tasks : TakePref(t)
    \/ \E t \in DOMAIN tasks : RemoveDead(t)
    \/ \E t \in DOMAIN tasks : TakeUpdate(t)
    \/ \E t \in DOMAIN tasks : TakeQuiet(t)
    \/ \E t \in DOMAIN tasks : TakeScope(t)
    \/ \E t \in DOMAIN tasks : Unlock(t)
    \/ \E t \in DOMAIN tasks : \E ok \in BOOLEAN : Send(t, ok)

SpecSend == Init /\ [][NextSend]_vars

(***************************************************************************)
(* subscribe_all_sports up to the start of its workers                     *)
(* (opticOdds/subscribe.py lines 26-190), as a function of what the        *)
(* catalogue answers and of its arguments.  SPORTS_ALLOWLIST and SPORTS    *)
(* are not set.                                                            *)
(***************************************************************************)
\* get_all_sports_verbose: the name of each sport id
SportNames == ("tennis" :> "Tennis" @@ "basketball" :> "Basketball")

\* get_leagues_verbose: the leagues of each sport, the catalogue has none for basketball
CatalogueLeagues(s) ==
    IF s = "tennis"
    THEN <<[id |-> "atp", name |-> "ATP"], [id |-> "wta", name |-> "WTA"]>>
    ELSE <<>>

\* the elements of a set of strings as a list, in some order
ListOf(S) ==
    CHOOSE o \in [1..Cardinality(S) -> S] : \A a, b \in DOMAIN o : a # b => o[a] # o[b]

\* the error object of lines 59-63
NoSportsbooksError(a) ==
    IF a.sportsbooks = <<>> /\ a.on_payload
    THEN <<[kind |-> "error",
            error |-> [where |-> "subscribe_all_sports", message |-> "no_sportsbooks",
                       api_key_present |-> a.api_key_present,
                       sports_count |-> Len(a.sports)]]>>
    ELSE <<>>

\* the test of lines 76-78 for one sport
SportWanted(s, want) ==
    \/ Lower(s) \in want
    \/ Lower(Strip(SportNames[s])) \in want
    \/ \E w \in want : In(w, Lower(Strip(SportNames[s])))

\* lines 71-79: the sports restricted to sport_allow, all of them when none is left
SportsKept(sports, want, kept) == IF want # {} /\ kept # <<>> THEN kept ELSE sports

SportsOf(a) ==
    SportsKept(a.sports, {Lower(x) : x \in a.sport_allow},
               SelectSeq(a.sports, LAMBDA s : SportWanted(s, {Lower(x) : x \in a.sport_allow})))

\* matches_allowed, lines 84-86
matches_allowed(name, allow_clean) ==
    \E x \in allow_clean : x # "" /\ Contains(x, Lower(Strip(name)))

\* lines 82-87: the sportsbooks that match sportsbook_allow
BooksFiltered(a) ==
    SelectSeq(a.sportsbooks,
              LAMBDA sb : matches_allowed(sb, {Lower(Strip(x)) : x \in a.sportsbook_allow}))

\* lines 158-163: the test of one league against league_allow
LeagueAllowed(l, allow_raw) ==
    \/ Lower(Strip(l.id)) \in allow_raw
    \/ Lower(Strip(l.name)) \in allow_raw
    \/ \E x \in {norm_clean(y) : y \in allow_raw} :
          /\ x # ""
          /\ \/ Contains(x, norm_clean(Lower(Strip(l.name))))
             \/ Contains(x, norm_clean(l.id))
             \/ In(norm_clean(Lower(Strip(l.name))), x)

\* the ids of a list of leagues
IdsOf(list) == [n \in DOMAIN list |-> list[n].id]

\* lines 164-167: the filtered leagues when there are any, the tokens of league_allow
\* when the sport has no league at all, and the whole list otherwise
LeaguesPicked(ids, filtered, league_allow) ==
    IF filtered # <<>> THEN filtered
    ELSE IF ids = <<>> THEN ListOf(league_allow)
    ELSE ids

\* lines 149-167 for one sport
LeaguesOf(s, league_allow) ==
    IF league_allow = {} THEN IdsOf(CatalogueLeagues(s))
    ELSE LeaguesPicked(IdsOf(CatalogueLeagues(s)),
                       IdsOf(SelectSeq(CatalogueLeagues(s),
                                       LAMBDA l : LeagueAllowed(l, {Lower(Strip(x)) : x \in league_allow}))),
                       league_allow)

\* lines 148-169: the sports that have leagues, each with its leagues
PerSport(sports, league_allow) ==
    SelectSeq([n \in DOMAIN sports |-> [sport |-> sports[n], leagues |-> LeaguesOf(sports[n], league_allow)]],
              LAMBDA w : w.leagues # <<>>)

\* lines 172-173
Capped(per_sport, max_workers) ==
    IF max_workers > 0 /\ Len(per_sport) > max_workers
    THEN SubSeq(per_sport, 1, max_workers)
    ELSE per_sport

\* lines 178-190: one worker per entry, each with the sportsbooks
WorkersOf(per_sport, sportsbooks) ==
    [n \in DOMAIN per_sport |->
        [sport |-> per_sport[n].sport, leagues |-> per_sport[n].leagues,
         sportsbooks |-> sportsbooks]]

\* the scope summary of lines 94-105 and 117-131
ScopeOf(a, sports, sportsbooks, note) ==
    IF a.on_scope
    THEN <<[control |-> "stream_scope", sports |-> sports, sportsbooks |-> sportsbooks,
            note |-> note]>>
    ELSE <<>>

\* lines 82-190 with the sports and the error object of the lines before
Subscribed(a, sports, err, filtered) ==
    IF a.sportsbook_allow # {} /\ filtered = <<>>
    THEN [payloads |-> err, scopes |-> ScopeOf(a, sports, <<>>, "no_sportsbooks_matched"),
          workers |-> <<>>, returned |-> TRUE]
    ELSE [payloads |-> err,
          scopes |-> ScopeOf(a, sports, IF a.sportsbook_allow # {} THEN filtered ELSE a.sportsbooks, ""),
          workers |-> WorkersOf(Capped(PerSport(sports, a.league_allow), a.max_workers),
                                IF a.sportsbook_allow # {} THEN filtered ELSE a.sportsbooks),
          returned |-> FALSE]

\* subscribe_all_sports up to its idle loop: what it handed to on_payload and on_scope, the
\* workers it started, and whether it returned before starting any
subscribe_all_sports(a) == Subscribed(a, SportsOf(a), NoSportsbooksError(a), BooksFiltered(a))

\* the arguments and the answers of the catalogue
ManagerInputs ==
    [sportsbooks : {<<>>, <<"X", "Y">>},
     sports : {<<>>, <<"tennis">>, <<"tennis", "basketball">>},
     sport_allow : {{}, {"Tennis"}},
     sportsbook_allow : {{}, {"X"}, {"z"}},
     league_allow : {{}, {"ATP"}, {"epl"}},
     on_payload : BOOLEAN, on_scope : BOOLEAN, api_key_present : BOOLEAN,
     max_workers : {1, 30}]

InitManager ==
    /\ InitState
    /\ call \in {<<[fn |-> "subscribe_all_sports", a |-> a]>> : a \in ManagerInputs}
    /\ result = <<>>

SubscribeCall ==
    /\ call # <<>> /\ call[1].fn = "subscribe_all_sports"
    /\ result = <<>>
    /\ result' = <<subscribe_all_sports(call[1].a)>>
    /\ UNCHANGED <<call, engineVars, fleetVars, hubVars, loopVars, workerVars>>

NextManager == SubscribeCall

SpecManager == InitManager /\ [][NextManager]_vars

(***************************************************************************)
(* Successive fleets in one process.  market_state, ev_cache and           *)
(* fixture_meta are globals of calculations/state.py; reset_all_state      *)
(* (state.py lines 21-27) is the only code that clears them and nothing    *)
(* calls it.                                                               *)
(***************************************************************************)
\* subscribe_all_sports called again, under a new token, once the fleet before has been
\* stopped (the restart of app.py lines 204-213): nothing of calculations/state.py is
\* touched
SubscribeAgain ==
    /\ manager = "returned"
    /\ manager' = "waiting"
    /\ stop_event' = FALSE
    /\ last_event' = [type |-> "start", arr |-> <<>>]
    /\ UNCHANGED <<market_state, ev_cache, fixture_meta, fixture_meta_fetched, fetches, ev_items,
                   arbitrages, arb_calls, fair_used, grouped, last_items, admitted,
                   meta_prev, ev_prev, sink, nbatches, pc, timer, backoff, elapsed,
                   chunkVars, hubVars, otherVars>>

\* an odds event read by a worker of the running fleet (sse.py lines 217-221)
FleetOddsEvent(arr, order) ==
    /\ manager = "waiting"
    /\ ~stop_event
    /\ OddsEvent(arr, order, NoAnswers)

NextFleets ==
    \/ ManagerStart
    \/ FireToken
    \/ ManagerReturn
    \/ SubscribeAgain
    \/ \E arr \in Batches(BookQuotes) :
          \E order \in Perms(AffectedKeys(Sport, arr)) : FleetOddsEvent(arr, order)

SpecFleets == Init /\ [][NextFleets]_vars

(***************************************************************************)
(* The two parse_decimal_odds of the repository: the one of                *)
(* calculations/extract.py, which the state engine imports                 *)
(* (evcalc.py line 9), and the one of utils/odds.py.                       *)
(***************************************************************************)
\* american_to_decimal (utils/odds.py lines 31-34) for a generic value in thousandths
generic_american_to_decimal(f) ==
    IF f >= 100 * PriceOne THEN PriceOne + f \div 100
    ELSE IF f <= 0 - 100 * PriceOne THEN PriceOne + (100 * PriceOne * PriceOne) \div (0 - f)
    ELSE 0

\* utils/odds.py lines 49-60: the generic fields, American by magnitude
utils_generic(f) ==
    IF generic_american_to_decimal(f) # 0 THEN generic_american_to_decimal(f)
    ELSE IF f >= MinDecimal THEN f
    ELSE 0

\* utils.odds.parse_decimal_odds, lines 5-61
utils_parse_decimal_odds(item) ==
    IF item.decimal >= MinDecimal THEN item.decimal
    ELSE IF american_to_decimal(item.american) # 0 THEN american_to_decimal(item.american)
    ELSE utils_generic(item.price)

\* items with and without an explicit decimal, an American field inside and outside the
\* range, and a generic price on both sides of 1.01 and of 100 in magnitude
OddsItems ==
    { Quote("G", "Moneyline", "", "Alcaraz", "X", dec, am, pr, FALSE) :
        dec \in {0, 2500}, am \in {0, 50, 150, -200},
        pr \in {0, 1005, 1010, 2500, 99990, 100000, 150000, -99000, -100000, -150000} }

InitOdds ==
    /\ InitState
    /\ call \in {<<[fn |-> "parse_decimal_odds", item |-> it]>> : it \in OddsItems}
    /\ result = <<>>

ParseCall ==
    /\ call # <<>> /\ call[1].fn = "parse_decimal_odds"
    /\ result = <<>>
    /\ result' = <<[engine |-> parse_decimal_odds(call[1].item),
                    utils |-> utils_parse_decimal_odds(call[1].item)]>>
    /\ UNCHANGED <<call, engineVars, fleetVars, hubVars, loopVars, workerVars>>

NextOdds == ParseCall

SpecOdds == InitOdds /\ [][NextOdds]_vars

(***************************************************************************)
(* Workers in process_odds_batch at the same time (calculations/evcalc.py  *)
(* lines 39-73).  The first pass is one `with state_lock:` block; inside   *)
(* it each quote is appended to prices and compared with best_price in one *)
(* step, and best_price and book are assigned in the next.                 *)
(***************************************************************************)
\* lines 66-69: the record of the outcome is there and holds the price
AppendPrice(d, outcome, odds) ==
    [d EXCEPT ![IndexOfName(d, outcome)].prices = Append(@, odds)]

\* lines 71-72: rec["best_price"] = float(odds); rec["book"] = sb
SetBest(d, outcome, odds, sb) ==
    [d EXCEPT ![IndexOfName(d, outcome)].best_price = odds,
              ![IndexOfName(d, outcome)].book = sb]

\* rec["best_price"] as line 70 reads it
BestPriceOf(d, outcome) == d[IndexOfName(d, outcome)].best_price

\* the engine's variables a first pass leaves alone
derivedVars == <<ev_cache, fixture_meta, fixture_meta_fetched, fetches, ev_items, arbitrages, arb_calls,
                 fair_used, grouped, last_items, admitted, meta_prev, ev_prev, last_event,
                 sink, nbatches>>

\* the state_lock without its mutual exclusion
NotTaken(w) == 0

\* state_lock once worker w has entered the block of line 47
Taken(w) == w

\* sse.py line 304: the worker calls process_odds_batch(sport, arr)
BatchStart(w, items) ==
    /\ batch_calls[w].pc = "idle"
    /\ batch_calls' = [batch_calls EXCEPT ![w] = [pc |-> "lock", items |-> items, i |-> 1]]
    /\ UNCHANGED <<state_lock, engineVars, fleetVars, hubVars, callVars, loopVars>>

\* line 47: with state_lock
AcquireStateLock(w) ==
    /\ batch_calls[w].pc = "lock"
    /\ state_lock = 0
    /\ state_lock' = Taken(w)
    /\ batch_calls' = [batch_calls EXCEPT ![w].pc = "item"]
    /\ UNCHANGED <<engineVars, fleetVars, hubVars, callVars, loopVars>>

\* lines 48-70 for the item the worker is at
AdmitStep(w) ==
    /\ batch_calls[w].pc = "item"
    /\ batch_calls[w].i <= Len(batch_calls[w].items)
    /\ IF ~Admissible(batch_calls[w].items[batch_calls[w].i])
       THEN /\ batch_calls' = [batch_calls EXCEPT ![w].i = @ + 1]
            /\ UNCHANGED market_state
       ELSE /\ market_state' =
                 PutKey(market_state, KeyOf(Sport, batch_calls[w].items[batch_calls[w].i]),
                        AppendPrice(WithRecord(OutcomeMap(market_state,
                                                   KeyOf(Sport, batch_calls[w].items[batch_calls[w].i])),
                                               batch_calls[w].items[batch_calls[w].i].name),
                                    batch_calls[w].items[batch_calls[w].i].name,
                                    parse_decimal_odds(batch_calls[w].items[batch_calls[w].i])))
            /\ batch_calls' =
                 IF Improves(parse_decimal_odds(batch_calls[w].items[batch_calls[w].i]),
                             BestPriceOf(WithRecord(OutcomeMap(market_state,
                                                       KeyOf(Sport, batch_calls[w].items[batch_calls[w].i])),
                                                    batch_calls[w].items[batch_calls[w].i].name),
                                         batch_calls[w].items[batch_calls[w].i].name))
                 THEN [batch_calls EXCEPT ![w].pc = "assign"]
                 ELSE [batch_calls EXCEPT ![w].i = @ + 1]
    /\ UNCHANGED <<state_lock, derivedVars, fleetVars, hubVars, callVars, loopVars>>

\* lines 71-73 for the item the worker is at
AssignStep(w) ==
    /\ batch_calls[w].pc = "assign"
    /\ market_state' =
          PutKey(market_state, KeyOf(Sport, batch_calls[w].items[batch_calls[w].i]),
                 SetBest(market_state[KeyOf(Sport, batch_calls[w].items[batch_calls[w].i])],
                         batch_calls[w].items[batch_calls[w].i].name,
                         parse_decimal_odds(batch_calls[w].items[batch_calls[w].i]),
                         batch_calls[w].items[batch_calls[w].i].sportsbook))
    /\ batch_calls' = [batch_calls EXCEPT ![w].pc = "item", ![w].i = @ + 1]
    /\ UNCHANGED <<state_lock, derivedVars, fleetVars, hubVars, callVars, loopVars>>

\* the end of the block of line 47
ReleaseStateLock(w) ==
    /\ batch_calls[w].pc = "item"
    /\ batch_calls[w].i > Len(batch_calls[w].items)
    /\ state_lock' = IF state_lock = w THEN 0 ELSE state_lock
    /\ batch_calls' = [batch_calls EXCEPT ![w].pc = "second"]
    /\ UNCHANGED <<engineVars, fleetVars, hubVars, callVars, loopVars>>

\* what the second pass leaves, r being its result
SecondPassDone(w, r) ==
    /\ fixture_meta' = r.fm
    /\ fixture_meta_fetched' = r.fetched
    /\ ev_cache' = r.cache
    /\ ev_items' = r.evs
    /\ arbitrages' = r.arbs
    /\ arb_calls' = r.calls
    /\ fair_used' = r.fairs
    /\ batch_calls' = [batch_calls EXCEPT ![w].pc = "done"]

\* lines 75-260: the second pass, which takes state_lock for each affected key and writes
\* nothing to market_state
SecondPassStep(w) ==
    /\ batch_calls[w].pc = "second"
    /\ state_lock = 0
    /\ \E order \in Perms(AffectedKeys(Sport, batch_calls[w].items)) :
          /\ SecondPassDone(w, SecondPass(market_state, fixture_meta, fixture_meta_fetched,
                                          ev_cache, batch_calls[w].items, order, NoAnswers))
          /\ fetches' = Counted(fetches,
                                SecondPassFetches(market_state, fixture_meta,
                                                  fixture_meta_fetched, ev_cache,
                                                  batch_calls[w].items, order, NoAnswers))
    /\ UNCHANGED <<market_state, grouped, last_items, admitted, meta_prev, ev_prev, last_event,
                   sink, nbatches, state_lock, fleetVars, hubVars, callVars, loopVars>>

\* quotes of two books for one outcome of one market, one of them not admissible, and a
\* quote for the other outcome
WorkerQuotes ==
    { Quote("G", "Moneyline", "", "Alcaraz", "X", 0, 0, 2500, FALSE),
      Quote("G", "Moneyline", "", "Alcaraz", "Y", 4000, 0, 0, FALSE),
      Quote("G", "Moneyline", "", "Alcaraz", "Y", 0, 0, 1005, FALSE),
      Quote("G", "Moneyline", "", "Sinner", "Y", 0, 0, 2500, FALSE) }

NextWorkers ==
    \/ \E w \in Workers : \E items \in Batches(WorkerQuotes) : BatchStart(w, items)
    \/ \E w \in Workers : AcquireStateLock(w)
    \/ \E w \in Workers : AdmitStep(w)
    \/ \E w \in Workers : AssignStep(w)
    \/ \E w \in Workers : ReleaseStateLock(w)
    \/ \E w \in Workers : SecondPassStep(w)

SpecWorkers == Init /\ [][NextWorkers]_vars

(***************************************************************************)
(* The odds engine with quotes of the pre-match and of the live market of  *)
(* one fixture.                                                            *)
(***************************************************************************)
LiveQuotes ==
    { Quote("G", "Moneyline", "", "Alcaraz", "X", 0, 0, 2000, FALSE),
      Quote("G", "Moneyline", "", "Sinner", "Y", 0, 0, 2000, FALSE),
      Quote("G", "Moneyline", "", "Alcaraz", "X", 0, 0, 2500, TRUE),
      Quote("G", "Moneyline", "", "Sinner", "Y", 0, 0, 1600, TRUE) }

NextLive ==
    \E arr \in Batches(LiveQuotes) :
        \E order \in Perms(AffectedKeys(Sport, arr)) : OddsEvent(arr, order, NoAnswers)

SpecLive == Init /\ [][NextLive]_vars

(***************************************************************************)
(* The broadcasts of the payload sink on the event loop of asyncio.  The   *)
(* sink (app.py line 47) hands each payload to the loop as a coroutine of  *)
(* its own; the loop starts the coroutines in the order they were handed   *)
(* over and runs one at a time, until it ends or is held in an await.  The *)
(* lock of the hub is never held across an await, so a coroutine is only   *)
(* held in ws.send_text: the frame is written when the call is made, and   *)
(* the call returns when the socket has taken it.                          *)
(***************************************************************************)
\* what one worker hands to the sink for two odds events (sse.py lines 426-446): the
\* grouped odds, the EV list and an arbitrage of the first, the grouped odds of the second
SinkPayloads ==
    << RawPayload(<<RawOdds("tennis", "moneyline", "X", "ATP")>>),
       EvPayload(<<EvEntry("tennis", "moneyline", "X", "ATP", 4100)>>),
       ArbPayload("tennis", 4000),
       RawPayload(<<RawOdds("tennis", "moneyline", "Y", "ATP")>>) >>

\* the preferences the subscribers set
OrderSettings ==
    { [NoData EXCEPT !.prod_type = "ev"], [NoData EXCEPT !.prod_type = "arbitrage"] }

\* list(self.connections), hub.py line 141: the same order for the same set; the
\* websockets are numbered in that order
RECURSIVE InSetOrder(_)
InSetOrder(S) ==
    IF S = {} THEN <<>>
    ELSE <<CHOOSE w \in S : \A v \in S : w <= v>>
         \o InSetOrder(S \ {CHOOSE w \in S : \A v \in S : w <= v})

\* hub.py lines 144-235 with nothing to wait for: the loop over the targets up to the
\* first of them that is sent a frame
RECURSIVE RunToSend(_)
RunToSend(task) ==
    IF task.pc # "loop" THEN task
    ELSE RunToSend(WithFrames(task,
                              FramesFor(PrefsGet(task.targets[task.i]), task.payload,
                                        FilterSets(PrefsGet(task.targets[task.i]).filters))))

\* the frames of the task are written to the socket of its recipient
Written(task) ==
    IF task.pc = "send"
    THEN [outbox EXCEPT ![Recipient(task)] = @ \o task.frames]
    ELSE outbox

\* on_payload, app.py lines 46-47: the next payload of the worker is handed to the loop
OnPayload ==
    /\ Len(tasks) < Len(SinkPayloads)
    /\ tasks' = Append(tasks, NewTask("broadcast", None, SinkPayloads[Len(tasks) + 1]))
    /\ UNCHANGED <<lock, outbox, closed, engineVars, fleetVars, hubVars, callVars, workerVars>>

\* the loop starts the oldest coroutine that has not run yet: hub.py lines 140-141 and
\* the loop over the targets
StartTask(t) ==
    /\ tasks[t].pc = "start"
    /\ \A u \in 1..(t - 1) : tasks[u].pc # "start"
    /\ tasks' = [tasks EXCEPT ![t] = RunToSend(LoopOrEnd([@ EXCEPT !.targets =
                                                             InSetOrder(connections)]))]
    /\ outbox' = Written(tasks'[t])
    /\ UNCHANGED <<lock, closed, engineVars, fleetVars, hubVars, callVars, workerVars>>

\* a send_text call returns and its coroutine goes on
ResumeTask(t) ==
    /\ tasks[t].pc = "send"
    /\ tasks' = [tasks EXCEPT ![t] = RunToSend(AfterSend(@, TRUE))]
    /\ outbox' = Written(tasks'[t])
    /\ UNCHANGED <<lock, closed, engineVars, fleetVars, hubVars, callVars, workerVars>>

NextOrder ==
    \/ \E ws \in WS : LockedConnect(ws)
    \/ \E ws \in WS : \E data \in OrderSettings : SetPrefs(ws, data)
    \/ OnPayload
    \/ \E t \in DOMAIN tasks : StartTask(t)
    \/ \E t \in DOMAIN tasks : ResumeTask(t)

SpecOrder == Init /\ [][NextOrder]_vars

(***************************************************************************)
(* The hub with subscribers that filter by league.  Every payload is about *)
(* fixture G of the ATP.                                                   *)
(***************************************************************************)
\* the league of each fixture of the feed
FixtureLeagues == [f \in {"G"} |-> "ATP"]

\* the payloads of one odds event for fixture G: grouped odds, EV list, arbitrage
LeaguePayloads ==
    { RawPayload(<<RawOdds("tennis", "Moneyline", "X", FixtureLeagues["G"])>>),
      EvPayload(<<EvEntry("tennis", "moneyline", "X", FixtureLeagues["G"], 4100)>>),
      ArbPayload("tennis", 4100) }

\* the control frames of the subscribers
LeagueFrames ==
    { [NoData EXCEPT !.league = << <<"wta">> >>],
      [NoData EXCEPT !.league = << <<"atp">> >>],
      [NoData EXCEPT !.prod_type = "arbitrage"],
      [NoData EXCEPT !.prod_type = "ev"] }

NextLeague ==
    \/ \E ws \in WS : Connect(ws)
    \/ \E ws \in WS : \E data \in LeagueFrames : ControlFrame(ws, data)
    \/ \E payload \in LeaguePayloads : Broadcast(payload)

SpecLeague == Init /\ [][NextLeague]_vars

(***************************************************************************)
(* One worker that is never cancelled, over partitions of one-element      *)
(* chunks, with the scheduling that favours rotation most: the worker      *)
(* thread keeps running, and both the connection attempts and the open     *)
(* streams fail again and again.                                           *)
(***************************************************************************)
RotateLeagues == <<"atp", "wta">>

RotateArgs ==
    {[fn |-> "sse_worker", leagues |-> l, sportsbooks |-> b,
      league_chunk_size |-> 1, sportsbook_chunk_size |-> 1] :
        l \in Prefixes(RotateLeagues), b \in Prefixes(PartitionBooks)}

InitRotate ==
    /\ InitBase
    /\ ingest_filters_enabled = FALSE
    /\ call \in {<<a>> : a \in RotateArgs}
    /\ WorkerStart(call[1].leagues, call[1].league_chunk_size,
                   call[1].sportsbooks, call[1].sportsbook_chunk_size)
    /\ result = <<>>

NextRotate ==
    \/ ManagerStart
    \/ LoopCheck
    \/ ConnectOk
    \/ ConnectFail
    \/ \E status \in {400, 500} : BadStatus(status)
    \/ Wake
    \/ StreamChunkedError
    \/ StreamFail
    \/ StreamEnds
    \/ Tick

\* the thread of the worker runs (ManagerStart, LoopCheck, Wake), time passes (Tick), and
\* the upstream keeps failing in the ways that rotate the indices
FairRotate ==
    /\ WF_vars(ManagerStart)
    /\ WF_vars(LoopCheck)
    /\ WF_vars(Wake)
    /\ WF_vars(Tick)
    /\ SF_vars(ConnectFail)
    /\ SF_vars(StreamFail)

SpecRotate == InitRotate /\ [][NextRotate]_vars

SpecRotateLive == SpecRotate /\ FairRotate

(***************************************************************************)
(* Several subscribers, each with a fleet of its own.  Every fleet reads   *)
(* the same upstream stream and is given the sink of its connection        *)
(* (app.py lines 46-47, 104), which hands the payload to Hub.broadcast.    *)
(***************************************************************************)
\* the grouped odds of one upstream odds event (sse.py lines 426-430)
UpstreamPayload == RawPayload(<<RawOdds("tennis", "moneyline", "X", "ATP")>>)

\* the fleets that have handed the upstream event to their sink
Emitters == {tasks[t].ws : t \in DOMAIN tasks}

\* the first control frame of a connection starts its fleet (app.py lines 223-224)
StartFleet(ws) == stream_thread[ws] = None /\ ControlFrame(ws, NoData)

\* the fleet started for ws, run with the arguments of app.py lines 95-110, handles the
\* upstream odds event and calls on_payload, the sink of ws: a broadcast is handed to the loop
FleetEmits(ws) ==
    /\ ws \in connections
    /\ stream_thread[ws] # None
    /\ ws \notin Emitters
    /\ tasks' = Append(tasks, NewTask("broadcast", ws, UpstreamPayload))
    /\ UNCHANGED <<lock, outbox, closed, engineVars, fleetVars, hubVars, callVars, workerVars>>

NextFanout ==
    \/ \E ws \in WS : LockedConnect(ws)
    \/ \E ws \in WS : \E data \in OrderSettings : SetPrefs(ws, data)
    \/ \E ws \in WS : StartFleet(ws)
    \/ \E ws \in WS : FleetEmits(ws)
    \/ \E t \in DOMAIN tasks : StartTask(t)
    \/ \E t \in DOMAIN tasks : ResumeTask(t)

SpecFanout == Init /\ [][NextFanout]_vars

(***************************************************************************)
(* Properties of the book (first pass).                                    *)
(***************************************************************************)
\* the admissions so far of one outcome of one key, in order
AdmittedFor(key, outcome) ==
    SelectSeq(admitted, LAMBDA a : a.key = key /\ a.outcome = outcome)

RecordOf(key, outcome) ==
    OutcomeMap(market_state, key)[IndexOfName(OutcomeMap(market_state, key), outcome)]

HasRecord(key, outcome) == IndexOfName(OutcomeMap(market_state, key), outcome) # 0

\* C1: every outcome ever admitted under a key is still in the book, its prices are the
\* admitted prices and its best_price is the maximum of all prices admitted for it (so no
\* call removes an outcome or lowers a best_price)
C1_BestPriceIsMax ==
    \A i \in 1..Len(admitted) :
        LET a == admitted[i]
            adm == AdmittedFor(a.key, a.outcome)
        IN  /\ HasRecord(a.key, a.outcome)
            /\ RecordOf(a.key, a.outcome).prices = [j \in 1..Len(adm) |-> adm[j].price]
            /\ RecordOf(a.key, a.outcome).best_price = MaxSeq([j \in 1..Len(adm) |-> adm[j].price])

\* C1 witness: an outcome was admitted at a price and later at a lower one, over two batches
C1_Witness ==
    /\ nbatches = 2
    /\ \E i, j \in 1..Len(admitted) :
          /\ i < j
          /\ admitted[i].key = admitted[j].key
          /\ admitted[i].outcome = admitted[j].outcome
          /\ admitted[j].price < admitted[i].price

\* index in admitted of the last / first admission of the outcome at its best price
AtBest(key, outcome) ==
    {i \in 1..Len(admitted) :
        /\ admitted[i].key = key
        /\ admitted[i].outcome = outcome
        /\ admitted[i].price = RecordOf(key, outcome).best_price}

\* C2 as stated: best_book is the sportsbook of the most recent admitted quote whose price
\* equals best_price (latest-write-wins on a tie)
C2_LatestWriteWins ==
    \A i \in 1..Len(admitted) :
        LET a == admitted[i]
            S == AtBest(a.key, a.outcome)
        IN  \A l \in S : (\A m \in S : m <= l) => RecordOf(a.key, a.outcome).book = admitted[l].sb

\* C2 amended: best_book is the sportsbook of the earliest admitted quote whose price
\* equals best_price; a later quote that ties the maximum leaves best_book unchanged
C2_FirstWriteWins ==
    \A i \in 1..Len(admitted) :
        LET a == admitted[i]
            S == AtBest(a.key, a.outcome)
        IN  \A f \in S : (\A m \in S : f <= m) => RecordOf(a.key, a.outcome).book = admitted[f].sb

\* C2 witness: two books were admitted at the best price of one outcome
C2_Witness ==
    \E i, j \in 1..Len(admitted) :
        /\ i < j
        /\ admitted[i].key = admitted[j].key
        /\ admitted[i].outcome = admitted[j].outcome
        /\ admitted[i].price = admitted[j].price
        /\ admitted[i].sb # admitted[j].sb
        /\ admitted[i].price = RecordOf(admitted[i].key, admitted[i].outcome).best_price

\* C3 as stated: every outcome record stored in the book has best_price >= 1.01
C3_BestPriceAtLeastMin ==
    \A key \in DOMAIN market_state :
        \A i \in 1..Len(market_state[key]) : market_state[key][i].best_price >= MinDecimal

(***************************************************************************)
(* Properties of the arbitrage derivation.                                 *)
(***************************************************************************)
\* the sum over all outcomes of best of 1 / price
SumImplied(best) == SumSeq([i \in 1..Len(best) |-> ImpliedProb(best[i].price)])

\* C4: compute_arbitrage(best) is non-null exactly when best has at least 2 outcomes and
\* the sum over all its outcomes of 1/price is strictly below 1, and then the arbitrage
\* percent is (1 - sum) * 100
C4_ArbitrageIffSumBelowOne ==
    \A i \in 1..Len(arb_calls) :
        LET c == arb_calls[i] IN
        /\ c.result.ok <=> (Len(c.best) >= 2 /\ SumImplied(c.best) < ProbOne)
        /\ c.result.ok => c.result.pct = (ProbOne - SumImplied(c.best)) * 100
        /\ ~c.result.ok => c.result = NoArb

\* C4 witness: in one state compute_arbitrage returned a result for two outcomes, and in
\* another it returned null for two outcomes whose sum is not below 1
C4_Witness ==
    \E i \in 1..Len(arb_calls) :
        /\ arb_calls[i].result.ok
        /\ Len(arb_calls[i].best) = 2
        /\ arb_calls[i].result.pct = 20000

C4_WitnessNull ==
    \E i \in 1..Len(arb_calls) :
        /\ ~arb_calls[i].result.ok
        /\ Len(arb_calls[i].best) = 2
        /\ SumImplied(arb_calls[i].best) >= ProbOne

\* the records of the book of one key with best_price >= 1.01
Priced(key) == SelectSeq(OutcomeMap(market_state, key), LAMBDA r : r.best_price >= MinDecimal)

TotalImplied(key) == SumSeq([i \in 1..Len(Priced(key)) |-> ImpliedProb(Priced(key)[i].best_price)])

HasArbitrage(key) ==
    /\ Len(Priced(key)) >= 2
    /\ 0 < TotalImplied(key)
    /\ TotalImplied(key) < ProbOne

ArbKey(r) == <<r.sport, r.fixture_id, r.market_name, r.is_live>>

\* C5: the batch returns exactly one arbitrage record for each affected key whose outcomes
\* with best_price >= 1.01 number at least 2 and have total implied probability strictly
\* between 0 and 1, and none for any other key; the outcomes of a record are those
\* outcomes, by price descending, each with its best_book
C5_OneArbitragePerKey ==
    /\ \A key \in AffectedKeys(Sport, last_items) :
          Cardinality({i \in 1..Len(arbitrages) : ArbKey(arbitrages[i]) = key})
              = IF HasArbitrage(key) THEN 1 ELSE 0
    /\ \A i \in 1..Len(arbitrages) :
          LET r == arbitrages[i]
              key == ArbKey(r)
          IN  /\ key \in AffectedKeys(Sport, last_items)
              /\ r.arbitrage_percent = (ProbOne - TotalImplied(key)) * 100
              /\ Len(r.outcomes) = Len(Priced(key))
              /\ \A a, b \in 1..Len(r.outcomes) : a < b => r.outcomes[a].price >= r.outcomes[b].price
              /\ \A a \in 1..Len(r.outcomes) :
                    \E b \in 1..Len(Priced(key)) :
                        /\ Priced(key)[b].name = r.outcomes[a].name
                        /\ Priced(key)[b].best_price = r.outcomes[a].price
                        /\ Priced(key)[b].book = r.outcomes[a].sports_book_name

\* C5 witness: a batch returned an arbitrage record whose outcomes are not in book order
C5_Witness ==
    \E i \in 1..Len(arbitrages) :
        /\ Len(arbitrages[i].outcomes) = 2
        /\ arbitrages[i].outcomes[1].price > arbitrages[i].outcomes[2].price
        /\ arbitrages[i].outcomes[1].name
             = OutcomeMap(market_state, ArbKey(arbitrages[i]))[2].name

\* C5 witness: a batch affected a key with two outcomes in the book and returned no record
C5_WitnessNone ==
    /\ arbitrages = <<>>
    /\ \E key \in AffectedKeys(Sport, last_items) : Len(OutcomeMap(market_state, key)) = 2

(***************************************************************************)
(* Properties of the EV derivation.                                        *)
(***************************************************************************)
EvKeyOf(r) == <<r.sport, r.fixture_id, r.market, r.is_live>>

\* the EV records of the last batch for one quote under one key
EvRecordsOf(key, q) ==
    {j \in 1..Len(ev_items) :
        /\ EvKeyOf(ev_items[j]) = key
        /\ ev_items[j].name = q.name
        /\ ev_items[j].sportsbook = q.sportsbook
        /\ ev_items[j].price = parse_decimal_odds(q)}

\* (fair_prob * decimal_odds - 1) * 100 at 3 dp, fair_prob = bp / total
EvPercent(f, odds) == RoundDiv(f.bp * odds * 100, f.total) - 100 * ProbOne

\* C6 as stated: for every affected key that has fair probabilities, each quote of the
\* batch admitted under that key (same fixture, same composed market, same is_live) whose
\* outcome is in fair_prob yields exactly one EV record, with
\* ev% = (fair_prob * decimal_odds - 1) * 100
C6_OneEvPerAdmittedQuote ==
    \A k \in 1..Len(fair_used) :
        \A i \in 1..Len(last_items) :
            ( /\ Admissible(last_items[i])
              /\ KeyOf(Sport, last_items[i]) = fair_used[k].key
              /\ last_items[i].name \in DOMAIN fair_used[k].fair )
            => /\ Cardinality(EvRecordsOf(fair_used[k].key, last_items[i]))
                    = Cardinality({i2 \in 1..Len(last_items) : last_items[i2] = last_items[i]})
               /\ \A j \in EvRecordsOf(fair_used[k].key, last_items[i]) :
                     ev_items[j].ev_value
                         = EvPercent(fair_used[k].fair[last_items[i].name],
                                     parse_decimal_odds(last_items[i]))

\* the indices of the priced outcomes of key in the team group of the i-th of them
TeamGroup(key, i) ==
    {j \in 1..Len(Priced(key)) : TeamOf(Priced(key)[j].name) = TeamOf(Priced(key)[i].name)}

\* the sum of the implied probabilities of the priced outcomes of key with index in S
ImpliedOver(key, S) ==
    SumSeq([j \in 1..Len(Priced(key)) |->
               IF j \in S THEN ImpliedProb(Priced(key)[j].best_price) ELSE 0])

InRange(total) == 600 <= total /\ total <= 2000

TeamGroupQualifies(key, i) ==
    Cardinality(TeamGroup(key, i)) >= 2 /\ InRange(ImpliedOver(key, TeamGroup(key, i)))

WholeMarketQualifies(key) ==
    /\ Len(Priced(key)) >= 2
    /\ ~is_nonexclusive_market(key[3])
    /\ InRange(ImpliedOver(key, 1..Len(Priced(key))))

\* the outcomes the rule gives a fair probability, and the total each is divided by
RuleOutcomes(key) ==
    IF \E i \in 1..Len(Priced(key)) : TeamGroupQualifies(key, i)
    THEN {i \in 1..Len(Priced(key)) : TeamGroupQualifies(key, i)}
    ELSE IF WholeMarketQualifies(key) THEN 1..Len(Priced(key)) ELSE {}

RuleTotal(key, i) ==
    IF TeamGroupQualifies(key, i) THEN ImpliedOver(key, TeamGroup(key, i))
    ELSE ImpliedOver(key, 1..Len(Priced(key)))

\* C7: the fair probabilities of every affected key are those of the rule: every team
\* group with at least 2 members and implied total in [0.6, 2.0] is normalised within the
\* group; only if no group qualifies and the market has at least 2 outcomes, is not
\* non-exclusive and has implied total in [0.6, 2.0], the whole market is normalised; in
\* every other case there is no fair probability and no EV record for the key
C7_FairProbabilityRule ==
    /\ {fair_used[k].key : k \in 1..Len(fair_used)} = AffectedKeys(Sport, last_items)
    /\ \A k \in 1..Len(fair_used) :
          /\ DOMAIN fair_used[k].fair
                = {Priced(fair_used[k].key)[i].name : i \in RuleOutcomes(fair_used[k].key)}
          /\ \A i \in RuleOutcomes(fair_used[k].key) :
                fair_used[k].fair[Priced(fair_used[k].key)[i].name]
                    = [bp |-> ImpliedProb(Priced(fair_used[k].key)[i].best_price),
                       total |-> RuleTotal(fair_used[k].key, i)]
          /\ RuleOutcomes(fair_used[k].key) = {}
                => \A j \in 1..Len(ev_items) : EvKeyOf(ev_items[j]) # fair_used[k].key
    /\ \A j \in 1..Len(ev_items) :
          \E k \in 1..Len(fair_used) :
              /\ fair_used[k].key = EvKeyOf(ev_items[j])
              /\ ev_items[j].name \in DOMAIN fair_used[k].fair
              /\ ev_items[j].ev_value
                    = EvPercent(fair_used[k].fair[ev_items[j].name], ev_items[j].price)

\* C7 witness: a key with three priced outcomes of which the two of one team group were
\* normalised within the group, and EV records were returned for it
C7_Witness ==
    \E k \in 1..Len(fair_used) :
        /\ Len(Priced(fair_used[k].key)) = 3
        /\ Cardinality(DOMAIN fair_used[k].fair) = 2
        /\ \E j \in 1..Len(ev_items) : EvKeyOf(ev_items[j]) = fair_used[k].key

\* C7 witness: whole-market normalisation was used and EV records were returned
C7_WitnessWholeMarket ==
    \E k \in 1..Len(fair_used) :
        /\ ~(\E i \in 1..Len(Priced(fair_used[k].key)) : TeamGroupQualifies(fair_used[k].key, i))
        /\ DOMAIN fair_used[k].fair # {}
        /\ \E j \in 1..Len(ev_items) : EvKeyOf(ev_items[j]) = fair_used[k].key

\* C7 witness: two outcomes of a non-exclusive market, no fair probability
C7_WitnessNonExclusive ==
    \E k \in 1..Len(fair_used) :
        /\ Len(Priced(fair_used[k].key)) = 2
        /\ is_nonexclusive_market(fair_used[k].key[3])
        /\ DOMAIN fair_used[k].fair = {}

\* C7 witness: two outcomes of an exclusive market whose implied total is out of range
C7_WitnessOutOfRange ==
    \E k \in 1..Len(fair_used) :
        /\ Len(Priced(fair_used[k].key)) = 2
        /\ ~is_nonexclusive_market(fair_used[k].key[3])
        /\ ~InRange(ImpliedOver(fair_used[k].key, 1..2))
        /\ DOMAIN fair_used[k].fair = {}

(***************************************************************************)
(* Properties of the grouped raw-odds payload and of FixtureMeta.          *)
(***************************************************************************)
\* the games of the grouped payload, over all books
Games == UNION {{grouped[b][i] : i \in 1..Len(grouped[b])} : b \in DOMAIN grouped}

CacheKey(g, o) == <<g.id, o.sports_book_name, o.market, Lower(o.name)>>

\* C8 as stated: the ev_value of every odds entry of the grouped payload is the EVCache
\* value stored for (fixture_id, sportsbook, market, outcome name), or null when the cache
\* has no entry
C8_RawEvIsCachedEv ==
    \A g \in Games :
        \A i \in 1..Len(g.odds) :
            g.odds[i].ev_value
                = IF CacheKey(g, g.odds[i]) \in DOMAIN ev_cache
                  THEN <<ev_cache[CacheKey(g, g.odds[i])]>>
                  ELSE <<>>

\* C9 as stated: once the EV records of a batch reported two names for a fixture, every
\* game of that fixture in the raw payload of the next batch reports the same pair
C9_LaterPayloadsInheritPair ==
    \A i \in 1..Len(ev_prev) :
        (ev_prev[i].home_team # "" /\ ev_prev[i].away_team # "")
        => \A g \in Games :
              g.id = ev_prev[i].fixture_id
              => {g.home_team, g.away_team} = {ev_prev[i].home_team, ev_prev[i].away_team}

MetaFields == {"home_team", "away_team", "start_date", "league"}

IsSet(meta, f) == IF f = "start_date" THEN meta[f] # 0 ELSE meta[f] # ""

\* C10: a field of FixtureMeta that was non-empty before a step (seed fetch, odds event
\* with its one-shot fetch and team inference, fixture-status event) is non-empty after it
C10_MetaNeverEmptied ==
    \A fid \in DOMAIN meta_prev :
        /\ fid \in DOMAIN fixture_meta
        /\ \A f \in MetaFields : IsSet(meta_prev[fid], f) => IsSet(fixture_meta[fid], f)

\* C10 witness: every field of a fixture was set, and the last step carried for it an item
\* whose participants, league and start time are all empty
C10_Witness ==
    /\ last_event.type \in {"odds", "fixture-status"}
    /\ \E i \in 1..Len(last_event.arr) :
          /\ last_event.arr[i].fixture_id \in DOMAIN meta_prev
          /\ \A f \in MetaFields : IsSet(meta_prev[last_event.arr[i].fixture_id], f)
          /\ extract_home_away(last_event.arr[i]) = NoPair
          /\ extract_league_name(last_event.arr[i]) = ""
          /\ extract_start_time(last_event.arr[i]) = 0

(***************************************************************************)
(* Properties of the worker's emissions.                                   *)
(***************************************************************************)
KindRank(kind) == IF kind = "raw" THEN 1 ELSE IF kind = "ev" THEN 2 ELSE 3

\* C11: the payloads reach the sink in the order of the upstream events, and for one
\* batch the grouped raw-odds payload precedes the EV payload, which precedes every
\* arbitrage payload of that batch
C11_EmissionOrder ==
    \A i, j \in 1..Len(sink) :
        i < j => /\ sink[i].batch <= sink[j].batch
                 /\ sink[i].batch = sink[j].batch
                       => KindRank(sink[i].kind) <= KindRank(sink[j].kind)
                 /\ (sink[i].batch = sink[j].batch /\ sink[j].kind # "arbitrage")
                       => sink[i].kind # sink[j].kind

\* C11 witness: two batches were emitted, the first with a grouped payload, an EV payload
\* and an arbitrage payload
C11_Witness ==
    /\ Len(sink) >= 4
    /\ sink[1] = Payload(1, "raw")
    /\ sink[2] = Payload(1, "ev")
    /\ sink[3] = Payload(1, "arbitrage")
    /\ sink[4].batch = 2

(***************************************************************************)
(* Properties of cancellation.                                             *)
(***************************************************************************)
\* C12 as stated: once the token is set, the worker has exited within one read-timeout
\* + 1 s, whether it was connecting, sleeping in backoff or reading
C12_ExitWithinReadTimeout ==
    (stop_event /\ pc # "exited") => elapsed <= ReadTimeout + 1

\* C13 as stated: at the moment the manager returns, every worker it spawned has exited
C13_ManagerReturnsAfterWorkers ==
    manager = "returned" => pc = "exited"

(***************************************************************************)
(* Properties of the stream endpoint and of the hub's preferences.         *)
(***************************************************************************)
\* the websocket of the last control frame, its frame, and what the frame met
FrameWs == last_frame[1].ws

FrameData == last_frame[1].data

\* the four filter sets as the claim compares them
SetsOf(f) == <<f.sport, f.sportsbook, f.league, f.market>>

FleetRunningBefore == last_frame # <<>> /\ last_frame[1].stream_thread # None

SnapshotDiffers ==
    SetsOf(prefs[FrameWs].filters) # SetsOf(last_frame[1].current_stream_filters)

\* C14: after a control frame met a running fleet, the fleet is restarted exactly when
\* the snapshot of the connection's four filter sets differs from the launched one; a
\* restart sets the old token, joins the old thread, then starts a thread with a token
\* never used before, and records the new snapshot; otherwise thread, token and
\* snapshot are as before and the token is not set by the frame
C14_RestartIffSnapshotDiffers ==
    FleetRunningBefore =>
        IF SnapshotDiffers
        THEN /\ last_frame[1].stream_stop_evt \in fired
             /\ steps = <<[op |-> "set", token |-> last_frame[1].stream_stop_evt],
                          [op |-> "join", token |-> last_frame[1].stream_thread],
                          [op |-> "start", token |-> stream_stop_evt[FrameWs]]>>
             /\ stream_stop_evt[FrameWs] > last_frame[1].threads
             /\ stream_stop_evt[FrameWs] \notin fired
             /\ stream_thread[FrameWs] = stream_stop_evt[FrameWs]
             /\ threads[stream_thread[FrameWs]].ws = FrameWs
             /\ SetsOf(current_stream_filters[FrameWs]) = SetsOf(prefs[FrameWs].filters)
        ELSE /\ stream_thread[FrameWs] = last_frame[1].stream_thread
             /\ stream_stop_evt[FrameWs] = last_frame[1].stream_stop_evt
             /\ current_stream_filters[FrameWs] = last_frame[1].current_stream_filters
             /\ fired = last_frame[1].fired
             /\ steps = <<>>

C14_Witness ==
    /\ FleetRunningBefore
    /\ SnapshotDiffers
    /\ last_frame[1].current_stream_filters.market # prefs[FrameWs].filters.market

C14_WitnessUnchanged ==
    /\ FleetRunningBefore
    /\ ~SnapshotDiffers
    /\ prefs[FrameWs].filters.sport = {"tennis"}
    /\ FrameData.sport # <<>>

\* C15 as stated: the thread started after a filter change is given sport, sportsbook
\* and league allow-sets equal to the connection's new filter sets
C15_FleetScopedToFilters ==
    (FleetRunningBefore /\ SnapshotDiffers) =>
        /\ threads[stream_thread[FrameWs]].sport_allow = prefs[FrameWs].filters.sport
        /\ threads[stream_thread[FrameWs]].sportsbook_allow = prefs[FrameWs].filters.sportsbook
        /\ threads[stream_thread[FrameWs]].league_allow = prefs[FrameWs].filters.league

\* C16 as stated: no thread is started before the first control frame, and after a
\* control frame the websocket has a thread, under a token that is not set, in which
\* the subscription manager has not ended
C16_ManagerRunsAfterFirstFrame ==
    /\ nframes = 0 => threads = <<>>
    /\ last_frame # <<>> =>
          /\ stream_thread[FrameWs] # None
          /\ stream_stop_evt[FrameWs] \notin fired
          /\ threads[stream_thread[FrameWs]].state \in {"started", "manager"}

\* the frame carries a truthy filters_replace, filters_clear or clear_filters, or a
\* filters object with a truthy replace, clear or reset
CarriesReset(data) ==
    \/ Truthy(data.filters_replace) \/ Truthy(data.filters_clear) \/ Truthy(data.clear_filters)
    \/ /\ data.filters # <<>>
       /\ \/ Truthy(data.filters[1].replace)
          \/ Truthy(data.filters[1].clear)
          \/ Truthy(data.filters[1].reset)

\* the value the frame gives for an axis, <<>> when it gives none
GivenFor(data, k) ==
    IF k = "sportsbook" /\ FilterUpdates(data)["sportbook"] # <<>>
    THEN FilterUpdates(data)["sportbook"]
    ELSE FilterUpdates(data)[k]

\* C17 as stated: after a frame that carries a reset, every filter set of the
\* connection is the normalised value the frame gives for its axis, and empty when the
\* frame gives none
C17_ResetClearsAllFour ==
    (last_frame # <<>> /\ CarriesReset(FrameData)) =>
        \A k \in Axes :
            prefs[FrameWs].filters[k] =
                IF GivenFor(FrameData, k) # <<>>
                THEN normalize_filter_values(GivenFor(FrameData, k)[1])
                ELSE {}

\* the frame carries no reset of any kind
NoReset(data) == ~CarriesReset(data) /\ data.filters # <<NoFilters>>

\* C18: after a frame that carries axis keys and no reset, each axis it names holds the
\* normalised values given and the other axes are as before; prod_type, thresholds and
\* odds format are as before unless the frame carries their keys; the preferences of
\* every other connection are as before
C18_AxisReplacedOthersKept ==
    (last_frame # <<>> /\ NoReset(FrameData) /\ HasUpdates(FilterUpdates(FrameData))) =>
        /\ \A k \in Axes :
              prefs[FrameWs].filters[k] =
                  IF GivenFor(FrameData, k) # <<>>
                  THEN normalize_filter_values(GivenFor(FrameData, k)[1])
                  ELSE last_frame[1].prefs[FrameWs].filters[k]
        /\ FrameData.prod_type = "" =>
              prefs[FrameWs].prod_type = last_frame[1].prefs[FrameWs].prod_type
        /\ FrameData.odds_format = <<>> =>
              prefs[FrameWs].odds_format = last_frame[1].prefs[FrameWs].odds_format
        /\ FrameData.ev_threshold = <<>> =>
              prefs[FrameWs].ev_threshold = last_frame[1].prefs[FrameWs].ev_threshold
        /\ FrameData.arb_threshold = <<>> =>
              prefs[FrameWs].arb_threshold = last_frame[1].prefs[FrameWs].arb_threshold
        /\ \A c \in connections \ {FrameWs} : prefs[c] = last_frame[1].prefs[c]

\* the sportbook alias replaced the sportsbook set of a connection whose sport set and
\* prod_type were set before, beside another connection with filters of its own
C18_Witness ==
    /\ last_frame # <<>>
    /\ FrameData.sportbook # <<>>
    /\ prefs[FrameWs].filters.sportsbook = {"x"}
    /\ last_frame[1].prefs[FrameWs].filters.sport # {}
    /\ prefs[FrameWs].filters.sport = last_frame[1].prefs[FrameWs].filters.sport
    /\ \E c \in connections \ {FrameWs} : prefs[c].filters # EmptyFilters

(***************************************************************************)
(* Properties of Hub.broadcast.                                            *)
(***************************************************************************)
\* the last broadcast: its payload, and for a websocket the preferences it met and the
\* frames it sent
SentPayload == last_broadcast[1].payload

PrefsMet(ws) == last_broadcast[1].prefs[ws]

Delivered(ws) == last_broadcast[1].delivered[ws]

Receivers(ptype) ==
    IF last_broadcast = <<>> THEN {}
    ELSE {ws \in DOMAIN last_broadcast[1].prefs : PrefsMet(ws).prod_type = ptype}

\* C19: a subscriber with prod_type arbitrage is sent exactly one frame, holding the
\* arbitrage record, when the payload is an arbitrage payload that passes arb_matches
\* under its filters and whose arbitrage_percent >= its arb_threshold, and no frame for
\* any other payload
C19_ArbitrageSubscriber ==
    \A ws \in Receivers("arbitrage") :
        IF /\ SentPayload.kind = "arbitrage"
           /\ arb_matches(SentPayload.arbitrage[1], FilterSets(PrefsMet(ws).filters))
           /\ SentPayload.arbitrage[1].arbitrage_percent >= PrefsMet(ws).arb_threshold
        THEN /\ Len(Delivered(ws)) = 1
             /\ Delivered(ws)[1].kind = "arbitrage"
             /\ Delivered(ws)[1].body = SentPayload.arbitrage
        ELSE Delivered(ws) = <<>>

\* threshold 4.0, arbitrage 4.1: one frame
C19_Witness ==
    \E ws \in Receivers("arbitrage") :
        /\ PrefsMet(ws).arb_threshold = 4000
        /\ SentPayload.kind = "arbitrage"
        /\ SentPayload.arbitrage[1].arbitrage_percent = 4100
        /\ Len(Delivered(ws)) = 1

\* threshold 4.0, arbitrage 3.6, filters that match: no frame
C19_WitnessBelow ==
    \E ws \in Receivers("arbitrage") :
        /\ PrefsMet(ws).arb_threshold = 4000
        /\ SentPayload.kind = "arbitrage"
        /\ SentPayload.arbitrage[1].arbitrage_percent = 3600
        /\ arb_matches(SentPayload.arbitrage[1], FilterSets(PrefsMet(ws).filters))
        /\ Delivered(ws) = <<>>

\* the entries of an EV payload that pass ev_matches under the filters of a websocket
\* and, when its ev_threshold > 0, have ev_value >= ev_threshold
Survivors(ws) ==
    SelectSeq(SentPayload.ev,
              LAMBDA e : /\ ev_matches(e, FilterSets(PrefsMet(ws).filters))
                         /\ PrefsMet(ws).ev_threshold > 0 =>
                                e.ev_value >= PrefsMet(ws).ev_threshold)

\* C20: a subscriber with prod_type ev is sent no frame for a payload that is not an
\* EV payload; for an EV payload it is sent no frame when no entry survives, and else
\* one frame whose odds entries are the regrouped survivors, so that with a threshold
\* > 0 every entry of the frame has ev_value >= ev_threshold
C20_EvSubscriber ==
    \A ws \in Receivers("ev") :
        IF SentPayload.kind = "ev" /\ Survivors(ws) # <<>>
        THEN /\ Len(Delivered(ws)) = 1
             /\ Delivered(ws)[1].kind = "ev"
             /\ Delivered(ws)[1].body = group_ev_list(Survivors(ws))
             /\ PrefsMet(ws).ev_threshold > 0 =>
                   \A n \in 1..Len(Delivered(ws)[1].body) :
                       Delivered(ws)[1].body[n].ev_value >= PrefsMet(ws).ev_threshold
        ELSE Delivered(ws) = <<>>

\* a threshold > 0 dropped some entries of the payload and kept another
C20_Witness ==
    \E ws \in Receivers("ev") :
        /\ PrefsMet(ws).ev_threshold > 0
        /\ SentPayload.kind = "ev"
        /\ Len(Delivered(ws)) = 1
        /\ Len(Delivered(ws)[1].body) < Len(SentPayload.ev)

\* a threshold > 0 left no entry: no frame
C20_WitnessNone ==
    \E ws \in Receivers("ev") :
        /\ PrefsMet(ws).ev_threshold > 0
        /\ SentPayload.kind = "ev"
        /\ \E i \in 1..Len(SentPayload.ev) :
               ev_matches(SentPayload.ev[i], FilterSets(PrefsMet(ws).filters))
        /\ Delivered(ws) = <<>>

(***************************************************************************)
(* Properties of the filter predicates.                                    *)
(***************************************************************************)
\* C21 as stated: for filter sets F within G on every axis, the empty set included, an
\* entry accepted under F is accepted under G
C21_Monotone ==
    result # <<>> => (result[1].under => result[1].over)

\* no axis goes from empty (no filter) to a filter
Restricting(F, G) == \A k \in Axes : F[k] # {} \/ G[k] = {}

\* C21: for filter sets F within G on every axis, where no axis is empty in F and not in
\* G, an entry accepted under F is accepted under G
C21_MonotoneOnceFiltered ==
    (result # <<>> /\ Restricting(call[1].F, call[1].G)) =>
        (result[1].under => result[1].over)

\* every axis filtered and accepted, and a larger G
C21_Witness ==
    /\ result # <<>>
    /\ \A k \in Axes : call[1].F[k] # {}
    /\ call[1].F # call[1].G
    /\ result[1].under
    /\ result[1].over

\* enlarging the filter sets let an entry in
C21_WitnessGrows ==
    /\ result # <<>>
    /\ Restricting(call[1].F, call[1].G)
    /\ ~result[1].under
    /\ result[1].over

(***************************************************************************)
(* Properties of the coroutines of the hub.                                *)
(***************************************************************************)
\* the task is in the loop of hub.py lines 144-242
InLoop(task) == task.kind = "broadcast" /\ task.pc \in {"loop", "have_pref", "send"}

\* C22: a send that raises does not end the loop of the broadcast: when the loop is left
\* every target of the snapshot has had its turn; no step of the loop removes a
\* connection or its preferences; the step after the loop removes every dead one from both
C22_DeadRemovedAfterLoop ==
    [][\A t \in DOMAIN tasks :
          (tasks[t].kind = "broadcast" /\ tasks'[t] # tasks[t]) =>
             /\ InLoop(tasks[t]) => (connections' = connections /\ prefs' = prefs)
             /\ (InLoop(tasks[t]) /\ ~InLoop(tasks'[t])) =>
                    tasks'[t].visited = tasks'[t].targets
             /\ tasks[t].pc = "after_loop" =>
                    \A ws \in Members(tasks[t].dead) :
                        ws \notin connections' /\ ws \notin DOMAIN prefs']_vars

\* a broadcast over two targets is over: the send to the first raised, the second got its
\* frame, and the first is in neither collection
C22_Witness ==
    \E t \in DOMAIN tasks :
        /\ tasks[t].kind = "broadcast" /\ tasks[t].pc = "done"
        /\ Len(tasks[t].targets) = 2
        /\ tasks[t].dead = <<tasks[t].targets[1]>>
        /\ tasks[t].visited = tasks[t].targets
        /\ tasks[t].targets[1] \notin connections \cup DOMAIN prefs \cup closed
        /\ outbox[tasks[t].targets[1]] = <<>>
        /\ outbox[tasks[t].targets[2]] # <<>>

\* the frames delivered to a websocket or about to be sent to one
FramesOut ==
    UNION {Members(outbox[ws]) : ws \in WS} \cup UNION {Members(tasks[t].frames) : t \in DOMAIN tasks}

\* C23: no frame sent to a websocket carries an error object of the payload sink: every
\* frame is an EV, arbitrage or grouped-odds frame or a control message, whatever the
\* prod_type of the subscriber
C23_NoErrorForwarded ==
    \A f \in FramesOut :
        /\ f.kind \in {"ev", "arbitrage", "raw", "control"}
        /\ f.body # ErrorPayload

\* the broadcast of an error payload is over: it met a subscriber of prod_type all and one
\* of prod_type ev with acks on, and nothing was delivered to either
C23_Witness ==
    \E t \in DOMAIN tasks :
        /\ tasks[t].kind = "broadcast" /\ tasks[t].pc = "done"
        /\ tasks[t].payload = ErrorPayload
        /\ Len(tasks[t].visited) = 2
        /\ tasks[t].dead = <<>>
        /\ DOMAIN prefs = WS
        /\ \E a, b \in WS : prefs[a].prod_type = "all" /\ prefs[b].prod_type = "ev"
        /\ \A ws \in WS : outbox[ws] = <<>>

\* C29: no coroutine of the hub holds hub.lock while it awaits a send_text: the lock is
\* held only inside the `async with` blocks of broadcast, update_filters and the scope
\* forwarder, and when every coroutine in flight is blocked in a send the lock is free for
\* connect, disconnect and the setters
C29_LockNeverHeldAcrossSend ==
    /\ \A t \in DOMAIN tasks : tasks[t].pc = "send" => lock # t
    /\ lock # 0 => (lock \in DOMAIN tasks /\ tasks[lock].pc \in LockedPcs)
    /\ (\A t \in DOMAIN tasks : tasks[t].pc \in {"send", "done"}) => lock = 0

\* a broadcast, an ack or a scope summary is blocked in its send while another coroutine
\* holds the lock
C29_Witness ==
    \E t, u \in DOMAIN tasks :
        /\ tasks[t].pc = "send"
        /\ tasks[u].pc \in LockedPcs
        /\ lock = u

\* an ack of update_filters and a scope summary are both blocked in their send, and the
\* lock is free
C29_WitnessBlocked ==
    \E t, u \in DOMAIN tasks :
        /\ tasks[t].kind = "update_filters" /\ tasks[t].pc = "send"
        /\ tasks[u].kind = "scope" /\ tasks[u].pc = "send"
        /\ lock = 0

(***************************************************************************)
(* Properties of the subscription manager.                                 *)
(***************************************************************************)
\* the call of subscribe_all_sports is over
ManagerDone == call # <<>> /\ call[1].fn = "subscribe_all_sports" /\ result # <<>>

\* C24: when the catalogue gives no sportsbook, the manager hands an error object with
\* no_sportsbooks and api_key_present to the sink, or a stream_scope message, starts no
\* worker and returns
C24_NoSportsbooksNoWorkers ==
    (ManagerDone /\ call[1].a.sportsbooks = <<>>) =>
        /\ \/ \E n \in DOMAIN result[1].payloads :
                 /\ result[1].payloads[n].error.message = "no_sportsbooks"
                 /\ result[1].payloads[n].error.api_key_present = call[1].a.api_key_present
           \/ result[1].scopes # <<>>
        /\ result[1].workers = <<>>
        /\ result[1].returned

\* C25: when league_allow is given and no league of a sport matches it, the worker of the
\* sport has the tokens of league_allow as its leagues
C25_TokensWhenNoLeagueMatches ==
    ManagerDone =>
        \A s \in Members(SportsOf(call[1].a)) :
            (/\ call[1].a.league_allow # {}
             /\ \A n \in DOMAIN CatalogueLeagues(s) :
                   ~LeagueAllowed(CatalogueLeagues(s)[n],
                                  {Lower(Strip(x)) : x \in call[1].a.league_allow})
             /\ \E n \in DOMAIN result[1].workers : result[1].workers[n].sport = s)
            => \A n \in DOMAIN result[1].workers :
                  result[1].workers[n].sport = s =>
                     Members(result[1].workers[n].leagues) = call[1].a.league_allow

\* C26: a fleet that has handled no event yet finds the MarketBook empty
C26_NewFleetStartsEmpty ==
    (manager = "waiting" /\ last_event.type = "start") => market_state = << >>

(***************************************************************************)
(* Properties of parse_decimal_odds.                                       *)
(***************************************************************************)
\* the item has neither an explicit decimal nor an American field that parses
GenericOnly(item) == item.decimal < MinDecimal /\ american_to_decimal(item.american) = 0

\* C27: the parse_decimal_odds of the state engine reads a generic value of magnitude 100
\* or more as American odds and a smaller one from 1.01 up as decimal, and gives what
\* utils.odds.parse_decimal_odds gives for every item
C27_GenericAmericanAndSameAsUtils ==
    (call # <<>> /\ call[1].fn = "parse_decimal_odds" /\ result # <<>>) =>
        /\ result[1].engine = result[1].utils
        /\ GenericOnly(call[1].item) =>
              result[1].engine =
                 IF call[1].item.price >= 100 * PriceOne
                 THEN PriceOne + call[1].item.price \div 100
                 ELSE IF call[1].item.price <= 0 - 100 * PriceOne
                 THEN PriceOne + (100 * PriceOne * PriceOne) \div (0 - call[1].item.price)
                 ELSE IF call[1].item.price >= MinDecimal THEN call[1].item.price
                 ELSE 0

(***************************************************************************)
(* Properties of concurrent calls of process_odds_batch.                   *)
(***************************************************************************)
\* the admissions of all the workers, one list after the other
AllAdmissions == Admissions(Sport, batch_calls[1].items) \o Admissions(Sport, batch_calls[2].items)

\* the prices admitted for an outcome of a key, as a list
AdmittedPrices(key, outcome) ==
    [n \in DOMAIN SelectSeq(AllAdmissions, LAMBDA a : a.key = key /\ a.outcome = outcome) |->
        SelectSeq(AllAdmissions, LAMBDA a : a.key = key /\ a.outcome = outcome)[n].price]

\* how often x is in the list
CountIn(list, x) == Cardinality({n \in DOMAIN list : list[n] = x})

\* C28: once every call of process_odds_batch is over, the prices of each outcome hold
\* every price admitted by any worker, as often as it was admitted, and best_price is the
\* highest of them
C28_NoAdmissionLost ==
    (\A w \in Workers : batch_calls[w].pc = "done") =>
        \A n \in DOMAIN AllAdmissions :
            /\ AllAdmissions[n].key \in DOMAIN market_state
            /\ \E m \in DOMAIN market_state[AllAdmissions[n].key] :
                  /\ market_state[AllAdmissions[n].key][m].name = AllAdmissions[n].outcome
                  /\ \A x \in Members(AdmittedPrices(AllAdmissions[n].key, AllAdmissions[n].outcome))
                             \cup Members(market_state[AllAdmissions[n].key][m].prices) :
                        CountIn(market_state[AllAdmissions[n].key][m].prices, x)
                        = CountIn(AdmittedPrices(AllAdmissions[n].key, AllAdmissions[n].outcome), x)
                  /\ market_state[AllAdmissions[n].key][m].best_price
                     = MaxSeq(AdmittedPrices(AllAdmissions[n].key, AllAdmissions[n].outcome))

\* both workers brought a price for Alcaraz, the second to take the lock the lower one, and
\* both calls are over
C28_Witness ==
    /\ \A w \in Workers : batch_calls[w].pc = "done"
    /\ \E k \in DOMAIN market_state : \E m \in DOMAIN market_state[k] :
          /\ market_state[k][m].name = "Alcaraz"
          /\ market_state[k][m].prices = <<4000, 2500>>
          /\ market_state[k][m].best_price = 4000
    /\ \E w, v \in Workers :
          /\ Len(batch_calls[w].items) = 1 /\ batch_calls[w].items[1].decimal = 4000
          /\ Len(batch_calls[v].items) = 1 /\ batch_calls[v].items[1].price = 2500

\* a worker waits for state_lock while the other is between the comparison and the
\* assignment of best_price
C28_WitnessContended ==
    \E w, v \in Workers :
        /\ batch_calls[w].pc = "assign"
        /\ batch_calls[v].pc = "lock"
        /\ state_lock = w

(***************************************************************************)
(* Properties of the worker's fault handling.                              *)
(***************************************************************************)
\* the faults of the transport: a request that raises, a stream that breaks in a chunk,
\* a read that raises
TransportFaults == {"request", "chunked", "request-loop"}

\* C30: every transport fault of the worker puts it to sleep for its backoff and moves
\* both chunk indices to the next pair
C30_FaultSleepsAndRotates ==
    [][(pc \in {"connecting", "reading"} /\ pc' = "sleeping" /\ last_fault' \in TransportFaults) =>
          /\ timer' = Min(backoff, MaxBackoff)
          /\ lg_idx' = Rotated(lg_idx, lg_subchunks)
          /\ sb_idx' = Rotated(sb_idx, sb_subchunks)]_vars

(***************************************************************************)
(* C31: the sleeps of the worker over consecutive failures are 2, 4, 8,    *)
(* 16, 30, 30, ... seconds: the backoff is always one of these values,     *)
(* every step into a sleep sleeps the current backoff and leaves its       *)
(* double, capped at 30, and the backoff goes back to 2 only in the step   *)
(* that opens an event stream (status 200).                                *)
(***************************************************************************)
BackoffValues == {2, 4, 8, 16, 30}

FallsAsleep == pc # "sleeping" /\ pc' = "sleeping"

\* C31: the sleeps between connection attempts are 2, 4, 8, 16, 30, 30, ... seconds, and
\* the backoff is 2 again once a stream has been opened
C31_BackoffSequence ==
    /\ [](backoff \in BackoffValues)
    /\ [][/\ FallsAsleep =>
                /\ timer' = backoff
                /\ backoff' = (IF backoff * 2 > 30 THEN 30 ELSE backoff * 2)
          /\ (backoff' # backoff /\ ~FallsAsleep) =>
                /\ pc = "connecting" /\ pc' = "reading"
                /\ backoff' = 2]_vars

\* the worker sleeps 30 seconds a second time in a row
C31_Witness == pc = "sleeping" /\ timer = 30 /\ backoff = 30 /\ last_fault = "request"

\* after failures the stream has been opened and the backoff is 2 again
C31_WitnessReset == pc = "reading" /\ backoff = 2 /\ last_fault # ""

(***************************************************************************)
(* C32: on a 400 or 414 answer the worker bisects its chunk lists.  After  *)
(* any number of bisections the league chunks (and the sportsbook chunks)  *)
(* concatenated are the original list in its order and no chunk is empty;  *)
(* in the bisecting step every old chunk boundary is kept, so no chunk is  *)
(* larger than before, and every chunk that had more than one element gets *)
(* a new boundary inside it.                                               *)
(***************************************************************************)
\* the offsets at which the chunks end
Ends(chunks) == {Len(Flat(SubSeq(chunks, 1, n))) : n \in 0..Len(chunks)}

NoEmptyChunk(chunks) == \A n \in DOMAIN chunks : chunks[n] # <<>>

\* `after` refines `before` and cuts every chunk of `before` that has two elements or more
Refined(before, after) ==
    /\ Flat(after) = Flat(before)
    /\ Ends(before) \subseteq Ends(after)
    /\ \A n \in DOMAIN before :
          Len(before[n]) > 1 =>
             \E e \in Ends(after) :
                /\ e > Len(Flat(SubSeq(before, 1, n - 1)))
                /\ e < Len(Flat(SubSeq(before, 1, n)))

BisectStep == pc = "connecting" /\ pc' = "sleeping" /\ last_fault' = "bisect"

\* C32: a bisection after status 400 or 414 leaves no empty chunk and keeps every league
\* and sportsbook of the partition, in the same order
C32_BisectKeepsPartition ==
    /\ [](/\ Flat(lg_subchunks) = call[1].leagues
          /\ Flat(sb_subchunks) = call[1].sportsbooks
          /\ NoEmptyChunk(lg_subchunks)
          /\ NoEmptyChunk(sb_subchunks))
    /\ [][BisectStep => /\ Refined(lg_subchunks, lg_subchunks')
                        /\ Refined(sb_subchunks, sb_subchunks')]_vars

\* four leagues in chunks of two have been bisected into four chunks, three sportsbooks
\* into three
C32_Witness ==
    /\ last_fault = "bisect"
    /\ call[1].league_chunk_size = 2
    /\ Len(lg_subchunks) = 4
    /\ Len(sb_subchunks) = 3

\* one chunk of four leagues after two bisections
C32_WitnessTwice ==
    /\ last_fault = "bisect"
    /\ call[1].league_chunk_size = 0
    /\ Len(lg_subchunks) = 4

(***************************************************************************)
(* C33: once the worker has recorded an entry_id from an odds or           *)
(* locked-odds event, every later request of the worker carries a          *)
(* Last-Event-ID header whose value is the entry_id of the most recent of  *)
(* these events that had one.                                              *)
(***************************************************************************)
C33_ResumesFromLastEntry ==
    (pc = "connecting" /\ carried # <<>>) => headers = carried

(***************************************************************************)
(* C34: over any sequence of batches the state engine goes to              *)
(* fixtures/active at most once for each fixture id, whatever the fetch    *)
(* returned.                                                               *)
(***************************************************************************)
C34_OneFetchPerFixture == \A f \in DOMAIN fetches : fetches[f] <= 1

(***************************************************************************)
(* C35: every EV record of a batch belongs to a quote of the batch that    *)
(* was admitted under the record's own MarketKey (same composed market,    *)
(* same is_live), from whose fair probabilities it is computed; no quote   *)
(* gets a record under a key it did not update, so the quotes of one       *)
(* outcome at one book and price get no more records than there are of     *)
(* them.                                                                   *)
(***************************************************************************)
SameOffer(r, q) ==
    /\ r.fixture_id = q.fixture_id
    /\ r.name = q.name
    /\ r.sportsbook = q.sportsbook
    /\ r.price = parse_decimal_odds(q)

FairOfKey(key) ==
    IF \E k \in 1..Len(fair_used) : fair_used[k].key = key
    THEN fair_used[CHOOSE k \in 1..Len(fair_used) : fair_used[k].key = key].fair
    ELSE << >>

\* C35: a quote gets an EV record only under the market key it updated, priced with the
\* fair probabilities of that key
C35_EvUnderOwnKey ==
    /\ \A j \in 1..Len(ev_items) :
          \E i \in 1..Len(last_items) :
              /\ Admissible(last_items[i])
              /\ SameOffer(ev_items[j], last_items[i])
              /\ KeyOf(Sport, last_items[i]) = EvKeyOf(ev_items[j])
              /\ last_items[i].name \in DOMAIN FairOfKey(EvKeyOf(ev_items[j]))
              /\ ev_items[j].ev_value
                    = EvPercent(FairOfKey(EvKeyOf(ev_items[j]))[last_items[i].name],
                                parse_decimal_odds(last_items[i]))
    /\ \A i \in 1..Len(last_items) :
          Cardinality({j \in 1..Len(ev_items) : SameOffer(ev_items[j], last_items[i])})
             <= Cardinality({i2 \in 1..Len(last_items) :
                               SameOffer([fixture_id |-> last_items[i].fixture_id,
                                          name |-> last_items[i].name,
                                          sportsbook |-> last_items[i].sportsbook,
                                          price |-> parse_decimal_odds(last_items[i])],
                                         last_items[i2])})

(***************************************************************************)
(* C36: the frames a subscriber receives arrive in the order the worker    *)
(* emitted their payloads (raw odds, then EV, then arbitrage of a batch,   *)
(* an earlier batch before a later one), whatever the interleaving of the  *)
(* broadcast coroutines and whatever the other subscribers are.            *)
(***************************************************************************)
\* the preferences a subscriber can have
OrderPrefs == {DefaultPrefs} \cup {AfterSetters(DefaultPrefs, d) : d \in OrderSettings}

\* the place in the emission order of the payload a frame stems from
EmittedIndex(f) ==
    CHOOSE k \in DOMAIN SinkPayloads :
        \E p \in OrderPrefs : FramesFor(p, SinkPayloads[k], FilterSets(p.filters)) = <<f>>

\* C36: the frames a subscriber receives are in the order the payloads were emitted
C36_FramesInEmissionOrder ==
    \A ws \in WS :
        \A a, b \in DOMAIN outbox[ws] :
            a < b => EmittedIndex(outbox[ws][a]) < EmittedIndex(outbox[ws][b])

(***************************************************************************)
(* C37: a subscriber with a non-empty league filter is sent no frame whose *)
(* content belongs to a league that does not match the filter, whether the *)
(* frame holds raw odds, EV entries or an arbitrage.                       *)
(***************************************************************************)
\* the leagues of what a frame holds: the leagues of the fixtures of its entries
LeaguesOfFrame(f) == {FixtureLeagues[f.body[n].fixture_id] : n \in DOMAIN f.body}

\* the same for the frames that are not arbitrage frames
C37_HoldsForOddsAndEv ==
    \A ws \in (IF last_broadcast = <<>> THEN {} ELSE DOMAIN last_broadcast[1].prefs) :
        FilterSets(PrefsMet(ws).filters).league_raw # {} =>
            \A n \in DOMAIN Delivered(ws) :
                Delivered(ws)[n].kind # "arbitrage" =>
                    \A lg \in LeaguesOfFrame(Delivered(ws)[n]) :
                        LeagueMatches(norm_league_alias(lg),
                                      FilterSets(PrefsMet(ws).filters).league_clean)

\* a league-filtered subscriber is sent a frame of odds of the league it asked for
C37_OddsOfOwnLeague ==
    /\ last_broadcast # <<>>
    /\ \E ws \in DOMAIN last_broadcast[1].prefs :
          /\ FilterSets(PrefsMet(ws).filters).league_raw # {}
          /\ \E n \in DOMAIN Delivered(ws) : Delivered(ws)[n].kind \in {"raw", "ev"}

\* C37: no frame sent to a subscriber with a league filter holds content of a league
\* that does not match the filter, arbitrage frames included
C37_LeagueFilterHolds ==
    \A ws \in (IF last_broadcast = <<>> THEN {} ELSE DOMAIN last_broadcast[1].prefs) :
        FilterSets(PrefsMet(ws).filters).league_raw # {} =>
            \A n \in DOMAIN Delivered(ws) :
                \A lg \in LeaguesOfFrame(Delivered(ws)[n]) :
                    LeagueMatches(norm_league_alias(lg),
                                  FilterSets(PrefsMet(ws).filters).league_clean)

(***************************************************************************)
(* C38: while the worker is not cancelled, every league chunk and every    *)
(* sportsbook chunk is eventually part of a request, and every pair of a   *)
(* league chunk and a sportsbook chunk is eventually requested.            *)
(***************************************************************************)
\* the request of line 179 is being made for league chunk i and sportsbook chunk j
Requesting(i, j) ==
    /\ pc = "connecting"
    /\ i < Len(lg_subchunks) /\ lg_idx % Len(lg_subchunks) = i
    /\ j < Len(sb_subchunks) /\ sb_idx % Len(sb_subchunks) = j

PairExists(i, j) == i < Len(lg_subchunks) /\ j < Len(sb_subchunks)

LeagueChunkRequested(i) ==
    pc = "connecting" /\ i < Len(lg_subchunks) /\ lg_idx % Len(lg_subchunks) = i

BookChunkRequested(j) ==
    pc = "connecting" /\ j < Len(sb_subchunks) /\ sb_idx % Len(sb_subchunks) = j

\* the part about the single axes: every chunk of an axis is eventually requested
C38_EveryChunkRequested ==
    /\ \A i \in 0..(Len(RotateLeagues) - 1) :
           (i < Len(lg_subchunks)) ~> LeagueChunkRequested(i)
    /\ \A j \in 0..(Len(PartitionBooks) - 1) :
           (j < Len(sb_subchunks)) ~> BookChunkRequested(j)

\* C38: every chunk of each axis, and every pair of a league chunk and a sportsbook
\* chunk, is eventually requested by a worker that is not cancelled
C38_EveryPairRequested ==
    /\ C38_EveryChunkRequested
    /\ \A i \in 0..(Len(RotateLeagues) - 1) : \A j \in 0..(Len(PartitionBooks) - 1) :
           PairExists(i, j) ~> Requesting(i, j)

(***************************************************************************)
(* C39: with every subscriber running a fleet of its own, one upstream     *)
(* odds event gives a subscriber at most one raw-odds frame: the payloads  *)
(* of the other fleets do not reach it as well.                            *)
(***************************************************************************)
\* the raw-odds frames written to a websocket
RawFramesOf(ws) == {n \in DOMAIN outbox[ws] : outbox[ws][n].kind = "raw"}

RestartOf(ws) ==
    /\ nframes' = nframes + 1
    /\ last_frame' # <<>> /\ last_frame'[1].ws = ws
    /\ stream_thread[ws] # None
    /\ stream_thread'[ws] # stream_thread[ws]

\* the step is the end of the endpoint of ws
DisconnectOf(ws) == ws \in connections /\ ws \notin connections'

\* the step sets no token but that of ws and changes nothing of the other subscribers
OthersKept(ws) ==
    /\ fired' \ fired \subseteq {stream_stop_evt[ws]} \ {None}
    /\ \A o \in WS \ {ws} :
          /\ stream_thread'[o] = stream_thread[o]
          /\ stream_stop_evt'[o] = stream_stop_evt[o]
          /\ current_stream_filters'[o] = current_stream_filters[o]
          /\ stream_thread[o] # None => threads'[stream_thread[o]] = threads[stream_thread[o]]
          /\ o \in connections => (o \in connections' /\ prefs'[o] = prefs[o])

\* C40: a restart or disconnect of ws sets only the token of ws and changes nothing of
\* the other subscribers
C40_OnlyOwnTokenFired ==
    [][\A ws \in WS : (RestartOf(ws) \/ DisconnectOf(ws)) => OthersKept(ws)]_vars

\* C40 witness: a subscriber has just restarted its fleet, its old token is set, and
\* another subscriber is connected with a fleet whose token is not set
C40_Witness ==
    /\ last_frame # <<>>
    /\ last_frame[1].stream_stop_evt # None
    /\ last_frame[1].stream_stop_evt \in fired
    /\ stream_thread[last_frame[1].ws] # last_frame[1].stream_thread
    /\ \E o \in connections \ {last_frame[1].ws} :
          /\ stream_stop_evt[o] # None
          /\ stream_stop_evt[o] \notin fired
          /\ prefs[o] # DefaultPrefs

\* a subscriber with a fleet has disconnected, its token is set, and another subscriber
\* is connected with a fleet whose token is not set
C40_WitnessDisconnect ==
    /\ last_frame = <<>>
    /\ \E ws \in WS \ connections :
          /\ stream_stop_evt[ws] # None
          /\ stream_stop_evt[ws] \in fired
          /\ \E o \in connections :
                stream_stop_evt[o] # None /\ stream_stop_evt[o] \notin fired

====
